---- MODULE Spec2Model ----
(***************************************************************************)
(* Strategy Map: the Scene (Diagram), its entities (Node, Arrow,           *)
(* TextLabel, Whiteboard), the SelectionBox and the InteractionManager     *)
(* controller, as a state machine.                                         *)
(*                                                                         *)
(* Every method of the program is a pure operator over a "world" record W: *)
(*   W.h   the Node objects that exist (object identity |-> fields); an    *)
(*         Arrow and the controller's arrowStartNode hold references to    *)
(*         Node OBJECTS, which outlive their removal from the Scene        *)
(*   W.d   the Diagram                                                     *)
(*   W.m   the InteractionManager                                          *)
(*   W.n   the static id counters of the four entity classes               *)
(*   W.req the tool requested through onToolChange by the running handler  *)
(*   W.edit the element handed to the host through onRequestTextEdit, the  *)
(*         host's editingElement                                           *)
(*   W.asked the text handed over with it by the running handler           *)
(*   W.now the value of Date.now() while the handler runs, in milliseconds *)
(* The host's clipboard and the document in localStorage are variables of  *)
(* their own; last names the operation that ran last and calls counts the  *)
(* operations run so far; now is the clock of the page, and               *)
(* exitEditingTimeout the pending timer of Canvas with what its callback   *)
(* captured.                                                               *)
(* Coordinates are exact integers: floating point rounding is not          *)
(* modelled.                                                               *)
(***************************************************************************)
EXTENDS Integers, Sequences, FiniteSets, TLC

VARIABLES heap, diagram, im, nextId, clipboard, storage, editingElement, last, calls,
          now, exitEditingTimeout

vars == <<heap, diagram, im, nextId, clipboard, storage, editingElement, last, calls, now,
          exitEditingTimeout>>

(***************************************************************************)
(* Bounds of the exploration.                                              *)
(***************************************************************************)
\* Node, Arrow and TextLabel objects constructed in one run of the editor
MaxNodeId == 3
MaxArrowId == 2
MaxTextId == 1
\* events handled in one run of the editor, and of the box selection
MaxEvents == 7
MaxBoxEvents == 6
MaxDragEvents == 6
\* events handled in one run with text editing
MaxEditEvents == 6
\* events handled in one run with selections of every kind
MaxSelectEvents == 6
\* events handled in one run with a whiteboard resized
MaxResizeEvents == 7
\* how far from the origin a resized or moved whiteboard may reach
MaxReach == 4000
\* events handled in one run with the Pan and Laser tools
MaxViewEvents == 6
\* the time a run lasts, in milliseconds
MaxClock == 1200
\* the granularity of the clock, in milliseconds
ClockStep == 400
\* points added to a trail in one run, the time the run lasts and the step
\* of its clock
MaxTrailPoints == 102
MaxTrailClock == 800
TrailStep == 800
\* events handled in one run with an exit timer
MaxSessionEvents == 7
MaxMissing == 2
\* the Scenes a library caller starts from: nodes, labels, whiteboards added
\* to the default one, selected elements; and the operations run on them
MaxSceneNodes == 2
MaxSceneLabels == 1
MaxSceneBoards == 1
MaxSelected == 3
MaxCalls == 2
\* calls made on a loaded Scene
MaxLoadedCalls == 3
\* objects of one class a page with a loaded Scene constructs
MaxLoadedIds == 6

(***************************************************************************)
(* Constants of the program.                                               *)
(***************************************************************************)
NodeRadius == 60
MinArrowDropMargin == 80
ArrowHitThreshold == 10
MinBoxSize == 5
ResizeHandleSize == 12
DuplicateOffset == 20
DefaultWhiteboardWidth == 1600
DefaultWhiteboardHeight == 1200
LabelWidth == 100
LabelHeight == 30
LabelFontSize == 16
LabelPadding == 8
StrokeThin == 1
StrokeMedium == 2

(***************************************************************************)
(* Generic helpers: nullable values, insertion-ordered Map and Set.        *)
(***************************************************************************)
None == <<>>

Some(x) == <<x>>

IsSome(o) == o # <<>>

Range(s) == {s[i] : i \in 1..Len(s)}

MinOf(S) == CHOOSE x \in S : \A y \in S : x <= y

Abs(x) == IF x < 0 THEN -x ELSE x

\* Set.add / Set.delete of a JavaScript Set (insertion ordered, no duplicates)
SetAdd(s, x) == IF x \in Range(s) THEN s ELSE Append(s, x)

SetDelete(s, x) == SelectSeq(s, LAMBDA y : y # x)

RECURSIVE SeqOfSet(_)
SeqOfSet(S) == IF S = {} THEN <<>>
               ELSE LET x == CHOOSE y \in S : TRUE IN <<x>> \o SeqOfSet(S \ {x})

(***************************************************************************)
(* Point                                                                   *)
(***************************************************************************)
Pt(x, y) == [x |-> x, y |-> y]

PointAdd(p, q) == Pt(p.x + q.x, p.y + q.y)

PointSubtract(p, q) == Pt(p.x - q.x, p.y - q.y)

\* the square of Point.distanceTo
Dist2(p, q) == (p.x - q.x) * (p.x - q.x) + (p.y - q.y) * (p.y - q.y)

(***************************************************************************)
(* Style                                                                   *)
(***************************************************************************)
BLACK == "#1e1e1e"

BLUE == "#228be6"

WHITE == "#ffffff"

HAND_DRAWN == "Virgil, Segoe UI Emoji"

DEFAULT_STYLE == [strokeColor |-> BLACK, backgroundColor |-> BLUE, fillStyle |-> "solid",
                  strokeWidth |-> StrokeMedium, opacity |-> 1]

(***************************************************************************)
(* Ids: `${prefix}-${counter}`                                             *)
(***************************************************************************)
NodeIdOf(k) == <<"node", k>>

ArrowIdOf(k) == <<"arrow", k>>

TextIdOf(k) == <<"text", k>>

WhiteboardIdOf(k) == <<"whiteboard", k>>

(***************************************************************************)
(* Node (Point.ts 48-185).  A Node object is W.h[uid]; uid is the value of *)
(* Node.nextId its constructor consumed, so it names the object even when  *)
(* fromJSON overwrites the id afterwards.                                  *)
(***************************************************************************)
\* { ...DEFAULT_STYLE, ...style }
MergeStyle(style) ==
    [k \in DOMAIN DEFAULT_STYLE |->
        IF k \in DOMAIN style THEN style[k] ELSE DEFAULT_STYLE[k]]

\* new Node(position, text, style)
newNode(W, position, text, style) ==
    LET uid == W.n.node
        node == [uid |-> uid, id |-> NodeIdOf(uid), position |-> position,
                 text |-> text, radius |-> NodeRadius, isSelected |-> FALSE,
                 isDragging |-> FALSE, style |-> MergeStyle(style),
                 fontFamily |-> HAND_DRAWN]
    IN [W EXCEPT !.h = [u \in DOMAIN W.h \cup {uid} |->
                            IF u = uid THEN node ELSE W.h[u]],
                 !.n.node = @ + 1]

Node_containsPoint(node, point) ==
    Dist2(node.position, point) <= node.radius * node.radius

Node_moveBy(node, delta) == [node EXCEPT !.position = PointAdd(@, delta)]

\* node.clone(): a new object with the same fields, the flags included
Node_clone(W, uid) ==
    LET W1 == newNode(W, W.h[uid].position, W.h[uid].text, W.h[uid].style)
    IN [W1 EXCEPT !.h[W.n.node].radius = W.h[uid].radius,
                  !.h[W.n.node].isSelected = W.h[uid].isSelected,
                  !.h[W.n.node].isDragging = W.h[uid].isDragging,
                  !.h[W.n.node].fontFamily = W.h[uid].fontFamily]

Node_toJSON(node) ==
    [id |-> node.id, position |-> node.position, text |-> node.text,
     radius |-> node.radius, style |-> node.style, fontFamily |-> node.fontFamily]

\* Node.fromJSON(data): a new object (the counter advances), then the id of
\* the data is written over the minted one
Node_fromJSON(W, data) ==
    LET W1 == newNode(W, data.position, data.text, data.style)
    IN [W1 EXCEPT !.h[W.n.node].id = data.id,
                  !.h[W.n.node].radius = data.radius,
                  !.h[W.n.node].fontFamily = data.fontFamily]

(***************************************************************************)
(* Arrow (part_008).  fromNode and toNode are references to Node objects.  *)
(***************************************************************************)
\* new Arrow(fromNode, toNode, strokeColor?, strokeWidth?, lineStyle?): each
\* optional argument is None (undefined) or Some(value)
newArrow(W, fromNode, toNode, strokeColor, strokeWidth, lineStyle) ==
    [id |-> ArrowIdOf(W.n.arrow), fromNode |-> fromNode, toNode |-> toNode,
     isSelected |-> FALSE,
     strokeColor |-> IF IsSome(strokeColor) THEN strokeColor[1] ELSE BLACK,
     strokeWidth |-> IF IsSome(strokeWidth) THEN strokeWidth[1] ELSE StrokeMedium,
     lineStyle |-> IF IsSome(lineStyle) THEN lineStyle[1] ELSE "solid"]

\* the distance between two node centres; centres are placed at integer
\* distances, which keeps every comparison below exact
CentreDistance(d) ==
    IF d.y = 0 THEN Abs(d.x)
    ELSE IF d.x = 0 THEN Abs(d.y)
    ELSE CHOOSE l \in 1..(Abs(d.x) + Abs(d.y)) : l * l = d.x * d.x + d.y * d.y

\* getStartPoint / getEndPoint: the edge points of the two circles, as
\* points scaled by k (start = s / k, end = e / k).  Coincident centres give
\* atan2(0, 0) = 0, so both edge points lie to the right of the centre.
Arrow_getEndPoints(h, arrow) ==
    LET A == h[arrow.fromNode]
        B == h[arrow.toNode]
        d == PointSubtract(B.position, A.position)
        L == CentreDistance(d)
    IN IF L = 0
       THEN [k |-> 1, s |-> Pt(A.position.x + A.radius, A.position.y),
             e |-> Pt(B.position.x + B.radius, B.position.y)]
       ELSE [k |-> L,
             s |-> Pt(A.position.x * L + A.radius * d.x, A.position.y * L + A.radius * d.y),
             e |-> Pt(B.position.x * L - B.radius * d.x, B.position.y * L - B.radius * d.y)]

\* the point q / k lies within threshold of point
NearScaled(q, k, point, threshold) ==
    LET wx == k * point.x - q.x
        wy == k * point.y - q.y
    IN /\ Abs(wx) <= threshold * k
       /\ Abs(wy) <= threshold * k
       /\ wx * wx + wy * wy <= threshold * threshold * k * k

\* arrow.containsPoint(point, threshold): distance from point to the segment
\* start..end.  With d the direction between the centres and k its length,
\* end - start = m * d / k, and (point - start) . d = q, so the projection
\* parameter is t = q / (m * k), clamped to [0, 1]; inside the segment the
\* distance is |(point - A) x d| / k.
Arrow_containsPoint(h, arrow, point, threshold) ==
    LET A == h[arrow.fromNode]
        B == h[arrow.toNode]
        g == Arrow_getEndPoints(h, arrow)
        same == A.position = B.position
        d == IF same THEN Pt(1, 0) ELSE PointSubtract(B.position, A.position)
        m == IF same THEN B.radius - A.radius ELSE g.k - A.radius - B.radius
        q == (point.x - A.position.x) * d.x + (point.y - A.position.y) * d.y
               - A.radius * g.k
        cross == (point.x - A.position.x) * d.y - (point.y - A.position.y) * d.x
    IN IF m = 0
       THEN \* lineLength === 0 holds for coincident centres only: between
            \* centres on the line y = 0 the end that faces left has
            \* y = radius * sin(pi) > 0 in floating point, and t clamps to 0
            IF same \/ A.position.y # 0 \/ B.position.y # 0 THEN FALSE
            ELSE NearScaled(g.s, g.k, point, threshold)
       ELSE IF (m > 0 /\ q <= 0) \/ (m < 0 /\ q >= 0)
            THEN NearScaled(g.s, g.k, point, threshold)
       ELSE IF (m > 0 /\ q >= m * g.k) \/ (m < 0 /\ q <= m * g.k)
            THEN NearScaled(g.e, g.k, point, threshold)
       ELSE Abs(cross) <= threshold * g.k

Arrow_toJSON(h, arrow) ==
    [id |-> arrow.id, fromNodeId |-> h[arrow.fromNode].id,
     toNodeId |-> h[arrow.toNode].id, strokeColor |-> arrow.strokeColor,
     strokeWidth |-> arrow.strokeWidth, lineStyle |-> arrow.lineStyle]

(***************************************************************************)
(* TextLabel (part_006)                                                    *)
(***************************************************************************)
\* new TextLabel(position, text)
newTextLabel(W, position, text) ==
    [id |-> TextIdOf(W.n.text), position |-> position, text |-> text,
     fontSize |-> LabelFontSize, isSelected |-> FALSE, isDragging |-> FALSE,
     width |-> LabelWidth, height |-> LabelHeight, color |-> BLACK,
     fontFamily |-> HAND_DRAWN, showBorder |-> FALSE, borderStyle |-> "solid",
     borderColor |-> BLACK, borderWidth |-> StrokeThin, padding |-> LabelPadding]

\* the box of the label is centred on its position
TextLabel_containsPoint(label, point) ==
    /\ 2 * point.x >= 2 * label.position.x - label.width
    /\ 2 * point.x <= 2 * label.position.x + label.width
    /\ 2 * point.y >= 2 * label.position.y - label.height
    /\ 2 * point.y <= 2 * label.position.y + label.height

TextLabel_moveBy(label, delta) == [label EXCEPT !.position = PointAdd(@, delta)]

\* label.clone(): every field but the id
TextLabel_clone(W, label) ==
    [label EXCEPT !.id = TextIdOf(W.n.text)]

TextLabel_toJSON(label) ==
    [id |-> label.id, position |-> label.position, text |-> label.text,
     fontSize |-> label.fontSize, width |-> label.width, height |-> label.height,
     color |-> label.color, fontFamily |-> label.fontFamily,
     showBorder |-> label.showBorder, borderStyle |-> label.borderStyle,
     borderColor |-> label.borderColor, borderWidth |-> label.borderWidth,
     padding |-> label.padding]

\* TextLabel.fromJSON(data): the id of the data is kept
TextLabel_fromJSON(W, data) ==
    [newTextLabel(W, data.position, data.text) EXCEPT
        !.id = data.id, !.fontSize = data.fontSize, !.width = data.width,
        !.height = data.height, !.color = data.color,
        !.fontFamily = data.fontFamily, !.showBorder = data.showBorder,
        !.borderStyle = data.borderStyle, !.borderColor = data.borderColor,
        !.borderWidth = data.borderWidth, !.padding = data.padding]

(***************************************************************************)
(* Whiteboard (Whiteboard.ts); position is the top-left corner             *)
(***************************************************************************)
\* new Whiteboard(position, width, height, backgroundColor); isSelected is
\* what the property isSelected of the object holds, by its typeof: the
\* method of the class, or a boolean that Diagram.fromJSON assigned
newWhiteboard(W, position, width, height, backgroundColor) ==
    [id |-> WhiteboardIdOf(W.n.whiteboard), position |-> position,
     width |-> width, height |-> height, backgroundColor |-> backgroundColor,
     selected |-> FALSE, isSelected |-> "function"]

\* the default whiteboard of a Diagram, centred on the origin
DefaultWhiteboard(W) ==
    newWhiteboard(W, Pt(-(DefaultWhiteboardWidth \div 2), -(DefaultWhiteboardHeight \div 2)),
                  DefaultWhiteboardWidth, DefaultWhiteboardHeight, WHITE)

Whiteboard_containsPoint(wb, point) ==
    /\ point.x >= wb.position.x
    /\ point.x <= wb.position.x + wb.width
    /\ point.y >= wb.position.y
    /\ point.y <= wb.position.y + wb.height

\* isNearPoint(p1, p2, threshold), p2 and the threshold given doubled so
\* that the midpoints of the edges stay exact
IsNearPoint2(p1, p2x2, thresholdx2) ==
    /\ Abs(2 * p1.x - p2x2.x) <= thresholdx2
    /\ Abs(2 * p1.y - p2x2.y) <= thresholdx2

\* getResizeHandleAtPoint(point, handleSize): corners first, then edges;
\* None when no handle is near
Whiteboard_getResizeHandleAtPoint(wb, point, handleSize) ==
    LET x == 2 * wb.position.x
        y == 2 * wb.position.y
        w == 2 * wb.width
        ht == 2 * wb.height
        near(cx, cy) == IsNearPoint2(point, Pt(cx, cy), handleSize)
    IN IF near(x, y) THEN Some("top-left")
       ELSE IF near(x + w, y) THEN Some("top-right")
       ELSE IF near(x + w, y + ht) THEN Some("bottom-right")
       ELSE IF near(x, y + ht) THEN Some("bottom-left")
       ELSE IF near(x + wb.width, y) THEN Some("top")
       ELSE IF near(x + w, y + wb.height) THEN Some("right")
       ELSE IF near(x + wb.width, y + ht) THEN Some("bottom")
       ELSE IF near(x, y + wb.height) THEN Some("left")
       ELSE None

Whiteboard_toJSON(wb) ==
    [id |-> wb.id, position |-> wb.position, width |-> wb.width,
     height |-> wb.height, backgroundColor |-> wb.backgroundColor]

\* Whiteboard.fromJSON(data): a new whiteboard with a new id
Whiteboard_fromJSON(W, data) ==
    newWhiteboard(W, data.position, data.width, data.height, data.backgroundColor)

(***************************************************************************)
(* SelectionBox (part_007)                                                 *)
(***************************************************************************)
newSelectionBox(startPoint) == [startPoint |-> startPoint, endPoint |-> startPoint]

Min2(a, b) == IF a <= b THEN a ELSE b

Max2(a, b) == IF a >= b THEN a ELSE b

getTopLeft(box) == Pt(Min2(box.startPoint.x, box.endPoint.x),
                      Min2(box.startPoint.y, box.endPoint.y))

getBottomRight(box) == Pt(Max2(box.startPoint.x, box.endPoint.x),
                          Max2(box.startPoint.y, box.endPoint.y))

getWidth(box) == Abs(box.endPoint.x - box.startPoint.x)

getHeight(box) == Abs(box.endPoint.y - box.startPoint.y)

\* box.containsPoint(q / k)
SelectionBox_containsScaled(box, q, k) ==
    /\ q.x >= k * getTopLeft(box).x
    /\ q.x <= k * getBottomRight(box).x
    /\ q.y >= k * getTopLeft(box).y
    /\ q.y <= k * getBottomRight(box).y

intersectsRect(box, center, width, height) ==
    ~ \/ 2 * center.x + width < 2 * getTopLeft(box).x
      \/ 2 * center.x - width > 2 * getBottomRight(box).x
      \/ 2 * center.y + height < 2 * getTopLeft(box).y
      \/ 2 * center.y - height > 2 * getBottomRight(box).y

intersectsCircle(box, center, radius) ==
    LET closestX == Max2(getTopLeft(box).x, Min2(center.x, getBottomRight(box).x))
        closestY == Max2(getTopLeft(box).y, Min2(center.y, getBottomRight(box).y))
    IN Dist2(center, Pt(closestX, closestY)) <= radius * radius

isSignificant(box) == getWidth(box) >= MinBoxSize \/ getHeight(box) >= MinBoxSize

(***************************************************************************)
(* Diagram (Diagram.ts).  W.d.nodes is the Map of nodes as the sequence of *)
(* its values (object references) in insertion order, keyed by the id of   *)
(* the object; arrows, textLabels and whiteboards are the sequences of the *)
(* values of their Maps; selectedElementIds is the Set in insertion order. *)
(***************************************************************************)
RECURSIVE FoldSeq(_, _, _)
\* each step is evaluated before the next one starts
FoldSeq(Op(_, _), acc, s) ==
    IF s = <<>> THEN acc
    ELSE LET next == Op(acc, Head(s))
         IN IF next = next THEN FoldSeq(Op, next, Tail(s)) ELSE next

\* Map.set(value.id, value) on a Map held as the sequence of its values
MapSet(seq, value) ==
    IF \E i \in 1..Len(seq) : seq[i].id = value.id
    THEN [i \in 1..Len(seq) |-> IF seq[i].id = value.id THEN value ELSE seq[i]]
    ELSE Append(seq, value)

\* Map.get(id) / Map.has(id)
MapGet(seq, id) ==
    LET I == {i \in 1..Len(seq) : seq[i].id = id}
    IN IF I = {} THEN None ELSE Some(seq[MinOf(I)])

MapHas(seq, id) == \E i \in 1..Len(seq) : seq[i].id = id

MapDelete(seq, id) == SelectSeq(seq, LAMBDA v : v.id # id)

\* new Diagram(): one default whiteboard, nothing else
newDiagram(W) ==
    [W EXCEPT !.d = [nodes |-> <<>>, arrows |-> <<>>, textLabels |-> <<>>,
                     whiteboards |-> <<DefaultWhiteboard(W)>>,
                     selectedElementIds |-> <<>>],
              !.n.whiteboard = @ + 1]

\* the ids of a sequence of records
IdsOf(seq) == [i \in 1..Len(seq) |-> seq[i].id]

\* the ids of the nodes of the Scene, in Map order
NodeIds(W) == [i \in 1..Len(W.d.nodes) |-> W.h[W.d.nodes[i]].id]

hasNode(W, nodeId) == \E i \in 1..Len(W.d.nodes) : W.h[W.d.nodes[i]].id = nodeId

\* getNode(nodeId): the reference of the Node object, None when absent
getNode(W, nodeId) ==
    LET I == {i \in 1..Len(W.d.nodes) : W.h[W.d.nodes[i]].id = nodeId}
    IN IF I = {} THEN None ELSE Some(W.d.nodes[MinOf(I)])

\* addNode(node): this.nodes.set(node.id, node)
addNode(W, uid) ==
    LET id == W.h[uid].id
    IN IF hasNode(W, id)
       THEN [W EXCEPT !.d.nodes = [i \in 1..Len(W.d.nodes) |->
                          IF W.h[W.d.nodes[i]].id = id THEN uid ELSE W.d.nodes[i]]]
       ELSE [W EXCEPT !.d.nodes = Append(@, uid)]

\* removeNode as it would be if the cascade followed only the arrows that
\* leave the node
removeNode_outgoing(W, nodeId) ==
    [W EXCEPT !.d.nodes = SelectSeq(@, LAMBDA u : W.h[u].id # nodeId),
              !.d.arrows = SelectSeq(@, LAMBDA a : W.h[a.fromNode].id # nodeId),
              !.d.selectedElementIds = SetDelete(@, nodeId)]

\* removeNode(nodeId): the node, every arrow whose fromNode or toNode has
\* that id, and the id in the selection
removeNode(W, nodeId) ==
    [W EXCEPT !.d.nodes = SelectSeq(@, LAMBDA u : W.h[u].id # nodeId),
              !.d.arrows = SelectSeq(@, LAMBDA a : /\ W.h[a.fromNode].id # nodeId
                                                   /\ W.h[a.toNode].id # nodeId),
              !.d.selectedElementIds = SetDelete(@, nodeId)]

addArrow(W, arrow) == [W EXCEPT !.d.arrows = MapSet(@, arrow)]

removeArrow(W, arrowId) ==
    [W EXCEPT !.d.arrows = MapDelete(@, arrowId),
              !.d.selectedElementIds = SetDelete(@, arrowId)]

addTextLabel(W, label) == [W EXCEPT !.d.textLabels = MapSet(@, label)]

removeTextLabel(W, labelId) ==
    [W EXCEPT !.d.textLabels = MapDelete(@, labelId),
              !.d.selectedElementIds = SetDelete(@, labelId)]

addWhiteboard(W, whiteboard) == [W EXCEPT !.d.whiteboards = MapSet(@, whiteboard)]

\* removeWhiteboard as it would be without its guard
removeWhiteboard_unguarded(W, whiteboardId) ==
    [W EXCEPT !.d.whiteboards = MapDelete(@, whiteboardId),
              !.d.selectedElementIds = SetDelete(@, whiteboardId)]

\* removeWhiteboard(whiteboardId): refused when one whiteboard is left
removeWhiteboard(W, whiteboardId) ==
    IF Len(W.d.whiteboards) <= 1 THEN W
    ELSE [W EXCEPT !.d.whiteboards = MapDelete(@, whiteboardId),
                   !.d.selectedElementIds = SetDelete(@, whiteboardId)]

clearAllWhiteboards(W) == [W EXCEPT !.d.whiteboards = <<>>]

\* getElementsInWhiteboard(whiteboardId): the nodes, then the labels, whose
\* position lies in the whiteboard
getElementsInWhiteboard(W, whiteboardId) ==
    LET wb == MapGet(W.d.whiteboards, whiteboardId)
    IN IF ~IsSome(wb) THEN <<>>
       ELSE SelectSeq(NodeIds(W), LAMBDA id :
                \E u \in Range(W.d.nodes) :
                    W.h[u].id = id /\ Whiteboard_containsPoint(wb[1], W.h[u].position))
            \o IdsOf(SelectSeq(W.d.textLabels, LAMBDA l :
                         Whiteboard_containsPoint(wb[1], l.position)))

\* getSelectedWhiteboard() calls whiteboard.isSelected() on each whiteboard
\* in turn until one is selected: a TypeError when it comes to a whiteboard
\* whose isSelected is no function
getSelectedWhiteboard_throws(W) ==
    \E i \in 1..Len(W.d.whiteboards) :
        /\ W.d.whiteboards[i].isSelected # "function"
        /\ \A j \in 1..(i - 1) : ~W.d.whiteboards[j].selected

\* getSelectedWhiteboard(): the first whiteboard whose flag is set
getSelectedWhiteboard(W) ==
    LET I == {i \in 1..Len(W.d.whiteboards) : W.d.whiteboards[i].selected}
    IN IF I = {} THEN None ELSE Some(W.d.whiteboards[MinOf(I)])

\* the hit test with the arrows looked at first
findElementAtPoint_arrowsFirst(W, point) ==
    LET A == {i \in 1..Len(W.d.arrows) :
                 Arrow_containsPoint(W.h, W.d.arrows[i], point, ArrowHitThreshold)}
        N == {i \in 1..Len(W.d.nodes) : Node_containsPoint(W.h[W.d.nodes[i]], point)}
        T == {i \in 1..Len(W.d.textLabels) :
                 TextLabel_containsPoint(W.d.textLabels[i], point)}
    IN IF A # {} THEN Some([type |-> "arrow", id |-> W.d.arrows[MinOf(A)].id])
       ELSE IF N # {} THEN Some([type |-> "node", id |-> W.h[W.d.nodes[MinOf(N)]].id])
       ELSE IF T # {} THEN Some([type |-> "text", id |-> W.d.textLabels[MinOf(T)].id])
       ELSE None

\* findElementAtPoint(point): nodes, then labels, then arrows, each in Map
\* order; None when nothing is hit
findElementAtPoint(W, point) ==
    LET N == {i \in 1..Len(W.d.nodes) : Node_containsPoint(W.h[W.d.nodes[i]], point)}
        T == {i \in 1..Len(W.d.textLabels) :
                 TextLabel_containsPoint(W.d.textLabels[i], point)}
        A == {i \in 1..Len(W.d.arrows) :
                 Arrow_containsPoint(W.h, W.d.arrows[i], point, ArrowHitThreshold)}
    IN IF N # {} THEN Some([type |-> "node", id |-> W.h[W.d.nodes[MinOf(N)]].id])
       ELSE IF T # {} THEN Some([type |-> "text", id |-> W.d.textLabels[MinOf(T)].id])
       ELSE IF A # {} THEN Some([type |-> "arrow", id |-> W.d.arrows[MinOf(A)].id])
       ELSE None

\* findWhiteboardAtPoint(point): the last added whiteboard containing it
findWhiteboardAtPoint(W, point) ==
    LET I == {i \in 1..Len(W.d.whiteboards) :
                 Whiteboard_containsPoint(W.d.whiteboards[i], point)}
    IN IF I = {} THEN None ELSE Some(W.d.whiteboards[-MinOf({-i : i \in I})])

\* an arrow is in the box when its start, end or middle point is
Arrow_inBox(h, arrow, box) ==
    LET g == Arrow_getEndPoints(h, arrow)
    IN \/ SelectionBox_containsScaled(box, g.s, g.k)
       \/ SelectionBox_containsScaled(box, g.e, g.k)
       \/ SelectionBox_containsScaled(box, PointAdd(g.s, g.e), 2 * g.k)

\* findElementsInBox(selectionBox): nodes, labels, arrows, in that order
findElementsInBox(W, box) ==
    SelectSeq(NodeIds(W), LAMBDA id :
        \E u \in Range(W.d.nodes) :
            W.h[u].id = id /\ intersectsCircle(box, W.h[u].position, W.h[u].radius))
    \o IdsOf(SelectSeq(W.d.textLabels, LAMBDA l :
                 intersectsRect(box, l.position, l.width, l.height)))
    \o IdsOf(SelectSeq(W.d.arrows, LAMBDA a : Arrow_inBox(W.h, a, box)))

\* setSelected(value) on the node, arrow, label (and, where the code looks a
\* whiteboard up, the whiteboard) stored under each id of ids
SetSelectedFlags(W, ids, value, whiteboardsToo) ==
    [W EXCEPT
       !.h = [u \in DOMAIN W.h |->
                 IF u \in Range(W.d.nodes) /\ W.h[u].id \in ids
                 THEN [W.h[u] EXCEPT !.isSelected = value] ELSE W.h[u]],
       !.d.arrows = [i \in 1..Len(W.d.arrows) |->
                 IF W.d.arrows[i].id \in ids
                 THEN [W.d.arrows[i] EXCEPT !.isSelected = value] ELSE W.d.arrows[i]],
       !.d.textLabels = [i \in 1..Len(W.d.textLabels) |->
                 IF W.d.textLabels[i].id \in ids
                 THEN [W.d.textLabels[i] EXCEPT !.isSelected = value]
                 ELSE W.d.textLabels[i]],
       !.d.whiteboards = [i \in 1..Len(W.d.whiteboards) |->
                 IF whiteboardsToo /\ W.d.whiteboards[i].id \in ids
                 THEN [W.d.whiteboards[i] EXCEPT !.selected = value]
                 ELSE W.d.whiteboards[i]]]

clearSelection(W) ==
    [SetSelectedFlags(W, Range(W.d.selectedElementIds), FALSE, TRUE)
        EXCEPT !.d.selectedElementIds = <<>>]

\* selectElements(elementIds, addToSelection): whiteboards are not looked up
selectElements(W, elementIds, addToSelection) ==
    LET W1 == IF addToSelection THEN W ELSE clearSelection(W)
    IN [SetSelectedFlags(W1, Range(elementIds), TRUE, FALSE)
          EXCEPT !.d.selectedElementIds = FoldSeq(SetAdd, @, elementIds)]

selectElement(W, elementId, addToSelection) ==
    LET W1 == IF addToSelection THEN W ELSE clearSelection(W)
    IN [SetSelectedFlags(W1, {elementId}, TRUE, TRUE)
          EXCEPT !.d.selectedElementIds = SetAdd(@, elementId)]

deselectElement(W, elementId) ==
    [SetSelectedFlags(W, {elementId}, FALSE, TRUE)
        EXCEPT !.d.selectedElementIds = SetDelete(@, elementId)]

getSelectedIds(W) == W.d.selectedElementIds

\* one step of deleteSelected: the first collection that has the id decides
DeleteOne(W, id) ==
    IF hasNode(W, id) THEN removeNode(W, id)
    ELSE IF MapHas(W.d.arrows, id) THEN removeArrow(W, id)
    ELSE IF MapHas(W.d.textLabels, id) THEN removeTextLabel(W, id)
    ELSE IF MapHas(W.d.whiteboards, id) THEN removeWhiteboard(W, id)
    ELSE W

\* deleteSelected(): the ids selected at the call, in order; then the
\* selection set is emptied
deleteSelected(W) ==
    [FoldSeq(DeleteOne, W, W.d.selectedElementIds)
        EXCEPT !.d.selectedElementIds = <<>>]

\* selectAll(): nodes, arrows, labels; whiteboards are not selected
selectAll(W) ==
    LET W1 == clearSelection(W)
        ids == NodeIds(W1) \o IdsOf(W1.d.arrows) \o IdsOf(W1.d.textLabels)
    IN [SetSelectedFlags(W1, Range(ids), TRUE, FALSE)
          EXCEPT !.d.selectedElementIds = FoldSeq(SetAdd, <<>>, ids)]

\* the gap between a whiteboard and its duplicate
WhiteboardGap == 50

\* duplicateWhiteboard(whiteboardId) as it would be if the original were
\* left selected
duplicateWhiteboard_keeping(W, whiteboardId) ==
    LET original == MapGet(W.d.whiteboards, whiteboardId)
        o == original[1]
        duplicate == [newWhiteboard(W, Pt(o.position.x + o.width + WhiteboardGap,
                                          o.position.y),
                                    o.width, o.height, o.backgroundColor)
                        EXCEPT !.selected = TRUE]
        W1 == [W EXCEPT !.n.whiteboard = @ + 1]
    IN IF ~IsSome(original) THEN W
       ELSE [addWhiteboard(W1, duplicate) EXCEPT
               !.d.selectedElementIds = SetAdd(@, duplicate.id)]

\* duplicateWhiteboard(whiteboardId): the clone is placed to the right of the
\* original and replaces it in the selection; None when the id is unknown
duplicateWhiteboard(W, whiteboardId) ==
    LET original == MapGet(W.d.whiteboards, whiteboardId)
        o == original[1]
        duplicate == [newWhiteboard(W, Pt(o.position.x + o.width + WhiteboardGap,
                                          o.position.y),
                                    o.width, o.height, o.backgroundColor)
                        EXCEPT !.selected = TRUE]
        W1 == [W EXCEPT !.n.whiteboard = @ + 1,
                        !.d.whiteboards = [i \in 1..Len(@) |->
                            IF @[i].id = whiteboardId
                            THEN [@[i] EXCEPT !.selected = FALSE] ELSE @[i]]]
    IN IF ~IsSome(original) THEN W
       ELSE [addWhiteboard(W1, duplicate) EXCEPT
               !.d.selectedElementIds = SetAdd(SetDelete(@, whiteboardId), duplicate.id)]

\* a Map from ids to Node objects built during a copy: Map.set / Map.get
NodeMapSet(map, id, uid) ==
    [k \in DOMAIN map \cup {id} |-> IF k = id THEN uid ELSE map[k]]

NodeMapGet(map, id) == IF id \in DOMAIN map THEN Some(map[id]) ELSE None

\* the scratch state of a copy: the world, nodeIdMap and newIds
Scratch(W) == [W |-> W, map |-> <<>>, newIds |-> <<>>]

\* duplicateSelected, first pass: a selected id that is a node is cloned,
\* moved by the offset, deselected and added
DuplicateNode(acc, id) ==
    LET node == getNode(acc.W, id)
        new == acc.W.n.node
        W1 == Node_clone(acc.W, node[1])
        W2 == [W1 EXCEPT !.h[new].position =
                            Pt(acc.W.h[node[1]].position.x + DuplicateOffset,
                               acc.W.h[node[1]].position.y + DuplicateOffset),
                         !.h[new].isSelected = FALSE]
    IN IF ~IsSome(node) THEN acc
       ELSE [W |-> addNode(W2, new), map |-> NodeMapSet(acc.map, id, new),
             newIds |-> Append(acc.newIds, W2.h[new].id)]

\* second pass: the selected labels
DuplicateLabel(acc, id) ==
    LET label == MapGet(acc.W.d.textLabels, id)
        newLabel == [TextLabel_clone(acc.W, label[1]) EXCEPT
                        !.position = Pt(label[1].position.x + DuplicateOffset,
                                        label[1].position.y + DuplicateOffset),
                        !.isSelected = FALSE]
    IN IF ~IsSome(label) THEN acc
       ELSE [acc EXCEPT !.W = addTextLabel([acc.W EXCEPT !.n.text = @ + 1], newLabel),
                        !.newIds = Append(@, newLabel.id)]

\* the third pass as it would be if an end that was not cloned stayed on
\* the original node
DuplicateArrow_keepingEnds(acc, id) ==
    LET arrow == MapGet(acc.W.d.arrows, id)
        newFromNode == NodeMapGet(acc.map, acc.W.h[arrow[1].fromNode].id)
        newToNode == NodeMapGet(acc.map, acc.W.h[arrow[1].toNode].id)
        newArrowObj == newArrow(acc.W,
                                IF IsSome(newFromNode) THEN newFromNode[1]
                                ELSE arrow[1].fromNode,
                                IF IsSome(newToNode) THEN newToNode[1] ELSE arrow[1].toNode,
                                Some(arrow[1].strokeColor), Some(arrow[1].strokeWidth),
                                Some(arrow[1].lineStyle))
    IN IF ~IsSome(arrow) THEN acc
       ELSE [acc EXCEPT !.W = addArrow([acc.W EXCEPT !.n.arrow = @ + 1], newArrowObj),
                        !.newIds = Append(@, newArrowObj.id)]

\* third pass: a selected arrow is copied only when nodeIdMap has the ids of
\* both its nodes; the copy joins the two clones
DuplicateArrow(acc, id) ==
    LET arrow == MapGet(acc.W.d.arrows, id)
        newFromNode == NodeMapGet(acc.map, acc.W.h[arrow[1].fromNode].id)
        newToNode == NodeMapGet(acc.map, acc.W.h[arrow[1].toNode].id)
        newArrowObj == newArrow(acc.W, newFromNode[1], newToNode[1],
                                Some(arrow[1].strokeColor), Some(arrow[1].strokeWidth),
                                Some(arrow[1].lineStyle))
    IN IF ~IsSome(arrow) THEN acc
       ELSE IF ~(IsSome(newFromNode) /\ IsSome(newToNode)) THEN acc
       ELSE [acc EXCEPT !.W = addArrow([acc.W EXCEPT !.n.arrow = @ + 1], newArrowObj),
                        !.newIds = Append(@, newArrowObj.id)]

\* the ids duplicateSelected returns
duplicateSelectedIds(W) ==
    LET sel == W.d.selectedElementIds
    IN FoldSeq(DuplicateArrow,
               FoldSeq(DuplicateLabel, FoldSeq(DuplicateNode, Scratch(W), sel), sel),
               sel).newIds

\* duplicateSelected(): the three passes, then the selection becomes the
\* new elements
duplicateSelected(W) ==
    LET sel == W.d.selectedElementIds
        acc == FoldSeq(DuplicateArrow,
                   FoldSeq(DuplicateLabel, FoldSeq(DuplicateNode, Scratch(W), sel), sel),
                   sel)
    IN selectElements(clearSelection(acc.W), acc.newIds, FALSE)

\* copySelectedToClipboard(): the JSON document of the selected nodes,
\* labels and arrows; a label keeps six fields, an arrow five
CopyOne(data, W, id) ==
    LET node == getNode(W, id)
        label == MapGet(W.d.textLabels, id)
        arrow == MapGet(W.d.arrows, id)
    IN [nodes |-> IF IsSome(node)
                  THEN Append(data.nodes, Node_toJSON(W.h[node[1]])) ELSE data.nodes,
        textLabels |-> IF IsSome(label)
                  THEN Append(data.textLabels,
                         [id |-> label[1].id, position |-> label[1].position,
                          text |-> label[1].text, fontSize |-> label[1].fontSize,
                          color |-> label[1].color, fontFamily |-> label[1].fontFamily])
                  ELSE data.textLabels,
        arrows |-> IF IsSome(arrow)
                  THEN Append(data.arrows,
                         [id |-> arrow[1].id, fromNodeId |-> W.h[arrow[1].fromNode].id,
                          toNodeId |-> W.h[arrow[1].toNode].id,
                          strokeColor |-> arrow[1].strokeColor,
                          strokeWidth |-> arrow[1].strokeWidth])
                  ELSE data.arrows]

copySelectedToClipboard(W) ==
    LET step(data, id) == CopyOne(data, W, id)
    IN FoldSeq(step, [nodes |-> <<>>, textLabels |-> <<>>, arrows |-> <<>>],
               W.d.selectedElementIds)

\* an optional field of a JSON object: None when the object lacks it
Field(obj, name) == IF name \in DOMAIN obj THEN Some(obj[name]) ELSE None

\* pasteFromClipboard, the nodes of the data: a new Node at position +
\* offset, added and remembered under the id it has in the data
PasteNode(acc, nodeData, offset) ==
    LET new == acc.W.n.node
        W1 == newNode(acc.W, PointAdd(nodeData.position, offset), nodeData.text,
                      nodeData.style)
        W2 == [W1 EXCEPT !.h[new].radius = nodeData.radius,
                         !.h[new].fontFamily = nodeData.fontFamily]
    IN [W |-> addNode(W2, new), map |-> NodeMapSet(acc.map, nodeData.id, new),
        newIds |-> Append(acc.newIds, W2.h[new].id)]

\* the labels of the data
PasteLabel(acc, labelData, offset) ==
    LET label == [newTextLabel(acc.W, PointAdd(labelData.position, offset),
                               labelData.text)
                    EXCEPT !.fontSize = labelData.fontSize, !.color = labelData.color,
                           !.fontFamily = labelData.fontFamily]
    IN [acc EXCEPT !.W = addTextLabel([acc.W EXCEPT !.n.text = @ + 1], label),
                   !.newIds = Append(@, label.id)]

\* the arrows of the data as they would be pasted if an end missing from
\* the data were looked up in the Scene
PasteArrow_lookingUp(acc, arrowData) ==
    LET fromNode == IF arrowData.fromNodeId \in DOMAIN acc.map
                    THEN Some(acc.map[arrowData.fromNodeId])
                    ELSE getNode(acc.W, arrowData.fromNodeId)
        toNode == IF arrowData.toNodeId \in DOMAIN acc.map
                  THEN Some(acc.map[arrowData.toNodeId])
                  ELSE getNode(acc.W, arrowData.toNodeId)
        arrow == newArrow(acc.W, fromNode[1], toNode[1], Field(arrowData, "strokeColor"),
                          Field(arrowData, "strokeWidth"), Field(arrowData, "lineStyle"))
    IN IF ~(IsSome(fromNode) /\ IsSome(toNode)) THEN acc
       ELSE [acc EXCEPT !.W = addArrow([acc.W EXCEPT !.n.arrow = @ + 1], arrow),
                        !.newIds = Append(@, arrow.id)]

\* the arrows of the data: only when both ends were pasted
PasteArrow(acc, arrowData) ==
    LET fromNode == NodeMapGet(acc.map, arrowData.fromNodeId)
        toNode == NodeMapGet(acc.map, arrowData.toNodeId)
        arrow == newArrow(acc.W, fromNode[1], toNode[1], Field(arrowData, "strokeColor"),
                          Field(arrowData, "strokeWidth"), Field(arrowData, "lineStyle"))
    IN IF ~(IsSome(fromNode) /\ IsSome(toNode)) THEN acc
       ELSE [acc EXCEPT !.W = addArrow([acc.W EXCEPT !.n.arrow = @ + 1], arrow),
                        !.newIds = Append(@, arrow.id)]

PasteAll(W, data, offset) ==
    LET pasteNode(acc, nodeData) == PasteNode(acc, nodeData, offset)
        pasteLabel(acc, labelData) == PasteLabel(acc, labelData, offset)
    IN FoldSeq(PasteArrow,
               FoldSeq(pasteLabel, FoldSeq(pasteNode, Scratch(W), data.nodes),
                       data.textLabels),
               data.arrows)

\* the ids pasteFromClipboard returns
pasteFromClipboardIds(W, data, offset) == PasteAll(W, data, offset).newIds

\* pasteFromClipboard(clipboardData, offset): the selection becomes the
\* pasted elements
pasteFromClipboard(W, data, offset) ==
    LET acc == PasteAll(W, data, offset)
    IN selectElements(clearSelection(acc.W), acc.newIds, FALSE)

DefaultPasteOffset == Pt(DuplicateOffset, DuplicateOffset)

\* a clipboard text JSON.parse throws on
NotJSON == [error |-> "SyntaxError"]

Parses(clipboardData) == "error" \notin DOMAIN clipboardData

\* reading entry.position.x throws when the entry has no position
Throws(entry) == "position" \notin DOMAIN entry

\* the entries forEach handles before its callback throws
BeforeThrow(entries) ==
    LET bad == {i \in 1..Len(entries) : Throws(entries[i])}
    IN IF bad = {} THEN entries ELSE SubSeq(entries, 1, MinOf(bad) - 1)

\* pasteFromClipboard(clipboardData, offset) on any text: when JSON.parse
\* or the callback of an entry throws, the catch returns [] and the Scene
\* stays as the try block left it
pasteFromClipboardText(W, clipboardData, offset) ==
    LET data == clipboardData
        pasteNode(acc, nodeData) == PasteNode(acc, nodeData, offset)
        pasteLabel(acc, labelData) == PasteLabel(acc, labelData, offset)
        nodesDone == FoldSeq(pasteNode, Scratch(W), BeforeThrow(data.nodes))
        labelsDone == FoldSeq(pasteLabel, nodesDone, BeforeThrow(data.textLabels))
    IN IF ~Parses(clipboardData) THEN [W |-> W, newIds |-> <<>>]
       ELSE IF BeforeThrow(data.nodes) # data.nodes THEN [W |-> nodesDone.W, newIds |-> <<>>]
       ELSE IF BeforeThrow(data.textLabels) # data.textLabels
            THEN [W |-> labelsDone.W, newIds |-> <<>>]
       ELSE [W |-> pasteFromClipboard(W, data, offset),
             newIds |-> pasteFromClipboardIds(W, data, offset)]

\* clear(): everything goes; one new default whiteboard
clear(W) ==
    [W EXCEPT !.d = [nodes |-> <<>>, arrows |-> <<>>, textLabels |-> <<>>,
                     whiteboards |-> <<DefaultWhiteboard(W)>>,
                     selectedElementIds |-> <<>>],
              !.n.whiteboard = @ + 1]

\* toJSON(): a whiteboard is written without its backgroundColor and with
\* isSelected: wb.isSelected, the property itself and not its result
Diagram_toJSON(W) ==
    [nodes |-> [i \in 1..Len(W.d.nodes) |-> Node_toJSON(W.h[W.d.nodes[i]])],
     arrows |-> [i \in 1..Len(W.d.arrows) |-> Arrow_toJSON(W.h, W.d.arrows[i])],
     textLabels |-> [i \in 1..Len(W.d.textLabels) |-> TextLabel_toJSON(W.d.textLabels[i])],
     whiteboards |-> [i \in 1..Len(W.d.whiteboards) |->
                        [id |-> W.d.whiteboards[i].id,
                         position |-> W.d.whiteboards[i].position,
                         width |-> W.d.whiteboards[i].width,
                         height |-> W.d.whiteboards[i].height,
                         isSelected |-> W.d.whiteboards[i].isSelected]]]

\* JSON.parse(JSON.stringify(data)), the way a document travels to the
\* viewer: a property that holds a function is left out
JSON_text(data) ==
    [data EXCEPT !.whiteboards = [i \in 1..Len(@) |->
        IF @[i].isSelected = "function"
        THEN [id |-> @[i].id, position |-> @[i].position, width |-> @[i].width,
              height |-> @[i].height]
        ELSE @[i]]]

\* fromJSON, a whiteboard of the data: new Whiteboard(position, width,
\* height), then the id of the data and wb.isSelected = wbData.isSelected
\* || false, which puts a boolean in the place of the method when the data
\* has no function there
RestoreWhiteboard(W, wbData) ==
    addWhiteboard([W EXCEPT !.n.whiteboard = @ + 1],
                  [newWhiteboard(W, wbData.position, wbData.width, wbData.height, WHITE)
                     EXCEPT !.id = wbData.id,
                            !.isSelected = IF Field(wbData, "isSelected") = Some("function")
                                           THEN "function" ELSE "boolean"])

\* a node of the data: diagram.nodes.set(node.id, node)
RestoreNode(W, nodeData) == addNode(Node_fromJSON(W, nodeData), W.n.node)

\* an arrow of the data, were the error of Arrow.fromJSON not caught
RestoreArrow_uncaught(W, arrowData) ==
    LET fromNode == getNode(W, arrowData.fromNodeId)
        toNode == getNode(W, arrowData.toNodeId)
    IN IF ~(IsSome(fromNode) /\ IsSome(toNode)) THEN [W EXCEPT !.threw = TRUE]
       ELSE addArrow([W EXCEPT !.n.arrow = @ + 1],
                     [newArrow(W, fromNode[1], toNode[1], Field(arrowData, "strokeColor"),
                               Field(arrowData, "strokeWidth"),
                               Field(arrowData, "lineStyle"))
                        EXCEPT !.id = arrowData.id])

\* an arrow of the data: Arrow.fromJSON throws when a node is missing and the
\* arrow is skipped
RestoreArrow(W, arrowData) ==
    LET fromNode == getNode(W, arrowData.fromNodeId)
        toNode == getNode(W, arrowData.toNodeId)
    IN IF ~(IsSome(fromNode) /\ IsSome(toNode)) THEN W
       ELSE addArrow([W EXCEPT !.n.arrow = @ + 1],
                     [newArrow(W, fromNode[1], toNode[1], Field(arrowData, "strokeColor"),
                               Field(arrowData, "strokeWidth"),
                               Field(arrowData, "lineStyle"))
                        EXCEPT !.id = arrowData.id])

RestoreLabel(W, labelData) ==
    addTextLabel([W EXCEPT !.n.text = @ + 1], TextLabel_fromJSON(W, labelData))

\* Diagram.fromJSON(data): a new Diagram whose default whiteboard is
\* replaced by those of the data when there are any
Diagram_fromJSON(W, data) ==
    LET W0 == clearAllWhiteboards(newDiagram(W))
        W1 == IF Len(data.whiteboards) > 0
              THEN FoldSeq(RestoreWhiteboard, W0, data.whiteboards)
              ELSE [addWhiteboard(W0, DefaultWhiteboard(W0))
                      EXCEPT !.n.whiteboard = @ + 1]
    IN FoldSeq(RestoreLabel,
               FoldSeq(RestoreArrow, FoldSeq(RestoreNode, W1, data.nodes), data.arrows),
               data.textLabels)

(***************************************************************************)
(* localStorage (storage.ts)                                               *)
(***************************************************************************)
STORAGE_VERSION == "1.0"

\* saveDiagram(diagram): the document written under the storage key
saveDiagram(W) ==
    [version |-> STORAGE_VERSION,
     nodes |-> [i \in 1..Len(W.d.nodes) |-> Node_toJSON(W.h[W.d.nodes[i]])],
     arrows |-> [i \in 1..Len(W.d.arrows) |-> Arrow_toJSON(W.h, W.d.arrows[i])],
     textLabels |-> [i \in 1..Len(W.d.textLabels) |->
                       [id |-> W.d.textLabels[i].id,
                        position |-> W.d.textLabels[i].position,
                        text |-> W.d.textLabels[i].text,
                        fontSize |-> W.d.textLabels[i].fontSize,
                        color |-> W.d.textLabels[i].color,
                        fontFamily |-> W.d.textLabels[i].fontFamily,
                        showBorder |-> W.d.textLabels[i].showBorder,
                        borderStyle |-> W.d.textLabels[i].borderStyle,
                        borderColor |-> W.d.textLabels[i].borderColor,
                        borderWidth |-> W.d.textLabels[i].borderWidth,
                        padding |-> W.d.textLabels[i].padding]],
     whiteboards |-> [i \in 1..Len(W.d.whiteboards) |->
                        Whiteboard_toJSON(W.d.whiteboards[i])]]

\* loadDiagram, a whiteboard of the document
LoadWhiteboard(W, wbData) ==
    addWhiteboard([W EXCEPT !.n.whiteboard = @ + 1], Whiteboard_fromJSON(W, wbData))

\* a node of the document: a new Node with a new id, remembered under the
\* id it has in the document
LoadNode(acc, nodeData) ==
    LET new == acc.W.n.node
        W1 == newNode(acc.W, nodeData.position, nodeData.text, nodeData.style)
        W2 == [W1 EXCEPT !.h[new].radius = nodeData.radius,
                         !.h[new].fontFamily = nodeData.fontFamily]
    IN [acc EXCEPT !.W = addNode(W2, new), !.map = NodeMapSet(acc.map, nodeData.id, new)]

LoadLabel(acc, labelData) ==
    LET opt(name, default) == IF name \in DOMAIN labelData THEN labelData[name] ELSE default
        label == [newTextLabel(acc.W, labelData.position, labelData.text)
                    EXCEPT !.fontSize = labelData.fontSize, !.color = labelData.color,
                           !.fontFamily = labelData.fontFamily,
                           !.showBorder = opt("showBorder", @),
                           !.borderStyle = opt("borderStyle", @),
                           !.borderColor = opt("borderColor", @),
                           !.borderWidth = opt("borderWidth", @),
                           !.padding = opt("padding", @)]
    IN [acc EXCEPT !.W = addTextLabel([acc.W EXCEPT !.n.text = @ + 1], label)]

LoadArrow(acc, arrowData) ==
    LET fromNode == NodeMapGet(acc.map, arrowData.fromNodeId)
        toNode == NodeMapGet(acc.map, arrowData.toNodeId)
        arrow == newArrow(acc.W, fromNode[1], toNode[1], Field(arrowData, "strokeColor"),
                          Field(arrowData, "strokeWidth"), Field(arrowData, "lineStyle"))
    IN IF ~(IsSome(fromNode) /\ IsSome(toNode)) THEN acc
       ELSE [acc EXCEPT !.W = addArrow([acc.W EXCEPT !.n.arrow = @ + 1], arrow)]

\* loadDiagram(): None when nothing is stored or the version differs; else
\* a new Diagram holding the whiteboards, nodes, labels and arrows of the
\* document, all with new ids
loadDiagram(W, stored) ==
    IF ~IsSome(stored) \/ stored[1].version # STORAGE_VERSION THEN None
    ELSE LET data == stored[1]
             W0 == clearAllWhiteboards(newDiagram(W))
             W1 == IF Len(data.whiteboards) > 0
                   THEN FoldSeq(LoadWhiteboard, W0, data.whiteboards)
                   ELSE IF "whiteboard" \in DOMAIN data
                   THEN LoadWhiteboard(W0, data.whiteboard)
                   ELSE W0
         IN Some(FoldSeq(LoadArrow,
                     FoldSeq(LoadLabel, FoldSeq(LoadNode, Scratch(W1), data.nodes),
                             data.textLabels),
                     data.arrows).W)

(***************************************************************************)
(* LaserTrail (part_009 19-92): the points with the time they were added.  *)
(***************************************************************************)
LaserMaxAge == 800

LaserMaxPoints == 100

\* laserTrail.addPoint(point) at time t: the oldest point goes when the
\* trail is full
LaserTrail_addPoint(trail, point, t) ==
    LET pushed == Append(trail, [point |-> point, timestamp |-> t])
    IN IF Len(pushed) > LaserMaxPoints THEN Tail(pushed) ELSE pushed

\* cleanup() as it would be if a point of age maxAge stayed
LaserTrail_cleanup_late(trail, t) ==
    SelectSeq(trail, LAMBDA tp : t - tp.timestamp <= LaserMaxAge)

\* laserTrail.cleanup() at time t: the points that have reached maxAge go
LaserTrail_cleanup(trail, t) ==
    SelectSeq(trail, LAMBDA tp : t - tp.timestamp < LaserMaxAge)

\* the opacity 1 - age / maxAge, not below 0, as a fraction
Opacity(age) ==
    [over |-> LaserMaxAge,
     parts |-> IF LaserMaxAge - age > 0 THEN LaserMaxAge - age ELSE 0]

\* laserTrail.getTrailPoints() at time t
LaserTrail_getTrailPoints(trail, t) ==
    [i \in 1..Len(trail) |->
        [point |-> trail[i].point, opacity |-> Opacity(t - trail[i].timestamp)]]

(***************************************************************************)
(* InteractionManager (part_004 214-882).  mousePosition only feeds the    *)
(* renderer and is left out.                                               *)
(***************************************************************************)
Tools == {"select", "node", "arrow", "text", "pan", "laser"}

Modes == {"idle", "dragging", "creating_arrow", "editing_text", "panning",
          "box_selecting", "resizing_whiteboard", "laser_active"}

\* new InteractionManager(diagram)
newInteractionManager ==
    [currentTool |-> "select", mode |-> "idle", dragStartPoint |-> None,
     draggedElementId |-> None, arrowStartNode |-> None,
     panOffset |-> Pt(0, 0), panStartOffset |-> Pt(0, 0),
     panStartScreenPoint |-> None, selectionBox |-> None,
     resizingHandle |-> None, laserTrail |-> <<>>]

\* setTool(tool)
setTool(W, tool) ==
    [W EXCEPT !.m.laserTrail = IF W.m.currentTool = "laser" /\ tool # "laser"
                               THEN <<>> ELSE @,
              !.m.currentTool = tool,
              !.m.mode = "idle",
              !.m.arrowStartNode = None]

\* this.onRequestTextEdit(element, text): the host keeps the element as its
\* editingElement
onRequestTextEdit(W, id, text) == [W EXCEPT !.edit = Some(id), !.asked = Some(text)]

\* this.onToolChange(tool): the request is handed to the host
onToolChange(W, tool) == [W EXCEPT !.req = Some(tool)]

\* setDragging(value) on the node and on the label stored under the id
SetDraggingFlags(W, id, value) ==
    [W EXCEPT
       !.h = [u \in DOMAIN W.h |->
                 IF u \in Range(W.d.nodes) /\ W.h[u].id = id
                 THEN [W.h[u] EXCEPT !.isDragging = value] ELSE W.h[u]],
       !.d.textLabels = [i \in 1..Len(W.d.textLabels) |->
                 IF W.d.textLabels[i].id = id
                 THEN [W.d.textLabels[i] EXCEPT !.isDragging = value]
                 ELSE W.d.textLabels[i]]]

\* getAllWhiteboards().forEach(wb => wb.setSelected(false))
DeselectAllWhiteboards(W) ==
    [W EXCEPT !.d.whiteboards = [i \in 1..Len(@) |-> [@[i] EXCEPT !.selected = FALSE]]]

\* handleSelectMouseDown with the element under the pointer looked at before
\* the resize handles of the selected whiteboard
handleSelectMouseDown_elementFirst(W, point, element, shiftKey) ==
    IF getSelectedWhiteboard_throws(W) THEN [W EXCEPT !.threw = TRUE] ELSE
    LET selectedWhiteboard == getSelectedWhiteboard(W)
        handle == IF IsSome(selectedWhiteboard)
                  THEN Whiteboard_getResizeHandleAtPoint(selectedWhiteboard[1], point,
                                                         ResizeHandleSize)
                  ELSE None
        \* an element was hit
        E0 == DeselectAllWhiteboards(W)
        wasAlreadySelected == element[1].id \in Range(getSelectedIds(E0))
        E1 == IF ~shiftKey
              THEN IF ~wasAlreadySelected THEN selectElement(E0, element[1].id, FALSE)
                   ELSE E0
              ELSE selectElement(E0, element[1].id, TRUE)
        E2 == IF element[1].type \in {"node", "text"}
              THEN [SetDraggingFlags(E1, element[1].id, TRUE) EXCEPT
                      !.m.mode = "dragging",
                      !.m.draggedElementId = Some(element[1].id)]
              ELSE E1
        \* empty space
        clickedWhiteboard == findWhiteboardAtPoint(W, point)
        B0 == selectElement(clearSelection(W), clickedWhiteboard[1].id, FALSE)
        B1 == [B0 EXCEPT !.m.mode = "dragging",
                         !.m.draggedElementId = Some(clickedWhiteboard[1].id)]
        C0 == DeselectAllWhiteboards(W)
        C1 == IF ~shiftKey THEN clearSelection(C0) ELSE C0
        C2 == [C1 EXCEPT !.m.selectionBox = Some(newSelectionBox(point)),
                         !.m.mode = "box_selecting"]
    IN IF IsSome(element) THEN E2
       ELSE IF IsSome(handle)
       THEN [W EXCEPT !.m.mode = "resizing_whiteboard", !.m.resizingHandle = handle]
       ELSE IF IsSome(clickedWhiteboard) THEN B1
       ELSE C2

\* handleSelectMouseDown(point, element, shiftKey); the TypeError of
\* getSelectedWhiteboard leaves the handler before it has changed anything
handleSelectMouseDown(W, point, element, shiftKey) ==
    IF getSelectedWhiteboard_throws(W) THEN [W EXCEPT !.threw = TRUE] ELSE
    LET selectedWhiteboard == getSelectedWhiteboard(W)
        handle == IF IsSome(selectedWhiteboard)
                  THEN Whiteboard_getResizeHandleAtPoint(selectedWhiteboard[1], point,
                                                         ResizeHandleSize)
                  ELSE None
        \* an element was hit
        E0 == DeselectAllWhiteboards(W)
        wasAlreadySelected == element[1].id \in Range(getSelectedIds(E0))
        E1 == IF ~shiftKey
              THEN IF ~wasAlreadySelected THEN selectElement(E0, element[1].id, FALSE)
                   ELSE E0
              ELSE selectElement(E0, element[1].id, TRUE)
        E2 == IF element[1].type \in {"node", "text"}
              THEN [SetDraggingFlags(E1, element[1].id, TRUE) EXCEPT
                      !.m.mode = "dragging",
                      !.m.draggedElementId = Some(element[1].id)]
              ELSE E1
        \* empty space
        clickedWhiteboard == findWhiteboardAtPoint(W, point)
        B0 == selectElement(clearSelection(W), clickedWhiteboard[1].id, FALSE)
        B1 == [B0 EXCEPT !.m.mode = "dragging",
                         !.m.draggedElementId = Some(clickedWhiteboard[1].id)]
        C0 == DeselectAllWhiteboards(W)
        C1 == IF ~shiftKey THEN clearSelection(C0) ELSE C0
        C2 == [C1 EXCEPT !.m.selectionBox = Some(newSelectionBox(point)),
                         !.m.mode = "box_selecting"]
    IN IF IsSome(handle)
       THEN [W EXCEPT !.m.mode = "resizing_whiteboard", !.m.resizingHandle = handle]
       ELSE IF IsSome(element) THEN E2
       ELSE IF IsSome(clickedWhiteboard) THEN B1
       ELSE C2

\* handleNodeCreation(point)
handleNodeCreation(W, point) ==
    LET new == W.n.node
        W1 == addNode(newNode(W, point, "New Node", DEFAULT_STYLE), new)
    IN onToolChange(selectElement(W1, W1.h[new].id, FALSE), "arrow")

\* handleArrowCreationStart(point, element)
handleArrowCreationStart(W, point, element) ==
    IF IsSome(element) /\ element[1].type = "node" /\ IsSome(getNode(W, element[1].id))
    THEN [W EXCEPT !.m.arrowStartNode = getNode(W, element[1].id),
                   !.m.mode = "creating_arrow"]
    ELSE W

\* handleTextCreation(point)
handleTextCreation(W, point) ==
    LET label == newTextLabel(W, point, "Text")
        W1 == addTextLabel([W EXCEPT !.n.text = @ + 1], label)
    IN onToolChange(selectElement(W1, label.id, FALSE), "select")

\* handleMouseDown(point, shiftKey)
handleMouseDown(W, point, shiftKey) ==
    LET W0 == [W EXCEPT !.m.dragStartPoint = Some(point)]
        element == findElementAtPoint(W0, point)
    IN CASE W0.m.currentTool = "select" -> handleSelectMouseDown(W0, point, element, shiftKey)
         [] W0.m.currentTool = "node" -> handleNodeCreation(W0, point)
         [] W0.m.currentTool = "arrow" -> handleArrowCreationStart(W0, point, element)
         [] W0.m.currentTool = "text" -> handleTextCreation(W0, point)
         [] W0.m.currentTool = "pan" ->
                [W0 EXCEPT !.m.mode = "panning",
                           !.m.panStartOffset = W0.m.panOffset,
                           !.m.panStartScreenPoint = None]
         [] W0.m.currentTool = "laser" ->
                [W0 EXCEPT !.m.mode = "laser_active",
                           !.m.laserTrail = LaserTrail_addPoint(<<>>, point, W0.now)]

\* whiteboard.resize(handle, delta): the dragged edges follow the pointer;
\* a size below the minimum is raised to it, the opposite edge kept fixed
MinWhiteboardWidth == 400

MinWhiteboardHeight == 300

\* whiteboard.resize(handle, delta) with a minimum that raises the size and
\* leaves the position where the pointer took it
Whiteboard_resize_unanchored(wb, handle, delta) ==
    LET left == handle \in {"top-left", "left", "bottom-left"}
        right == handle \in {"top-right", "right", "bottom-right"}
        top == handle \in {"top-left", "top", "top-right"}
        bottom == handle \in {"bottom-left", "bottom", "bottom-right"}
        x1 == IF left THEN wb.position.x + delta.x ELSE wb.position.x
        y1 == IF top THEN wb.position.y + delta.y ELSE wb.position.y
        w1 == IF left THEN wb.width - delta.x
              ELSE IF right THEN wb.width + delta.x ELSE wb.width
        h1 == IF top THEN wb.height - delta.y
              ELSE IF bottom THEN wb.height + delta.y ELSE wb.height
    IN [wb EXCEPT !.position = Pt(x1, y1),
                  !.width = Max2(w1, MinWhiteboardWidth),
                  !.height = Max2(h1, MinWhiteboardHeight)]

Whiteboard_resize(wb, handle, delta) ==
    LET left == handle \in {"top-left", "left", "bottom-left"}
        right == handle \in {"top-right", "right", "bottom-right"}
        top == handle \in {"top-left", "top", "top-right"}
        bottom == handle \in {"bottom-left", "bottom", "bottom-right"}
        x1 == IF left THEN wb.position.x + delta.x ELSE wb.position.x
        y1 == IF top THEN wb.position.y + delta.y ELSE wb.position.y
        w1 == IF left THEN wb.width - delta.x
              ELSE IF right THEN wb.width + delta.x ELSE wb.width
        h1 == IF top THEN wb.height - delta.y
              ELSE IF bottom THEN wb.height + delta.y ELSE wb.height
        x2 == IF w1 < MinWhiteboardWidth /\ left THEN x1 - (MinWhiteboardWidth - w1) ELSE x1
        y2 == IF h1 < MinWhiteboardHeight /\ top THEN y1 - (MinWhiteboardHeight - h1) ELSE y1
    IN [wb EXCEPT !.position = Pt(x2, y2),
                  !.width = Max2(w1, MinWhiteboardWidth),
                  !.height = Max2(h1, MinWhiteboardHeight)]

\* moveBy(delta) on the node and on the label stored under the id
MoveById(W, id, delta) ==
    [W EXCEPT
       !.h = [u \in DOMAIN W.h |->
                 IF u \in Range(W.d.nodes) /\ W.h[u].id = id
                 THEN Node_moveBy(W.h[u], delta) ELSE W.h[u]],
       !.d.textLabels = [i \in 1..Len(W.d.textLabels) |->
                 IF W.d.textLabels[i].id = id
                 THEN TextLabel_moveBy(W.d.textLabels[i], delta)
                 ELSE W.d.textLabels[i]]]

\* handleDragging, one selected id: the node or label moves; a whiteboard
\* moves and then carries every node and label that lies in it
DragOne(W, id, delta) ==
    LET W1 == MoveById(W, id, delta)
        W2 == [W1 EXCEPT !.d.whiteboards = [i \in 1..Len(@) |->
                   IF @[i].id = id THEN [@[i] EXCEPT !.position = PointAdd(@, delta)]
                   ELSE @[i]]]
        carry(V, elementId) == MoveById(V, elementId, delta)
    IN IF MapHas(W1.d.whiteboards, id)
       THEN FoldSeq(carry, W2, getElementsInWhiteboard(W2, id))
       ELSE W1

\* handleDragging(point)
handleDragging(W, point) ==
    LET delta == PointSubtract(point, W.m.dragStartPoint[1])
        dragOne(V, id) == DragOne(V, id, delta)
    IN IF ~IsSome(W.m.dragStartPoint) THEN W
       ELSE [FoldSeq(dragOne, W, getSelectedIds(W)) EXCEPT !.m.dragStartPoint = Some(point)]

\* handlePanning(point)
handlePanning(W, point) ==
    IF ~IsSome(W.m.dragStartPoint) THEN W
    ELSE [W EXCEPT !.m.panOffset =
              PointAdd(W.m.panStartOffset, PointSubtract(point, W.m.dragStartPoint[1]))]

\* handlePanningWithScreenCoords(screenPoint)
handlePanningWithScreenCoords(W, screenPoint) ==
    IF ~IsSome(W.m.panStartScreenPoint)
    THEN [W EXCEPT !.m.panStartScreenPoint = Some(screenPoint)]
    ELSE [W EXCEPT !.m.panOffset =
              PointAdd(W.m.panStartOffset,
                       PointSubtract(screenPoint, W.m.panStartScreenPoint[1]))]

\* applyWheelPan(deltaX, deltaY)
applyWheelPan(W, deltaX, deltaY) ==
    [W EXCEPT !.m.panOffset = PointAdd(@, Pt(-deltaX, -deltaY)),
              !.m.panStartOffset = PointAdd(W.m.panOffset, Pt(-deltaX, -deltaY))]

\* handleBoxSelecting(point): the selection is replaced by the content of
\* the box on every move
handleBoxSelecting(W, point) ==
    LET box == [W.m.selectionBox[1] EXCEPT !.endPoint = point]
        W1 == [W EXCEPT !.m.selectionBox = Some(box)]
        elementsInBox == findElementsInBox(W1, box)
        W2 == clearSelection(W1)
    IN IF ~IsSome(W.m.selectionBox) THEN W
       ELSE IF Len(elementsInBox) > 0 THEN selectElements(W2, elementsInBox, FALSE)
       ELSE W2

\* handleResizingWhiteboard(point)
handleResizingWhiteboard(W, point) ==
    LET selectedWhiteboard == getSelectedWhiteboard(W)
        delta == PointSubtract(point, W.m.dragStartPoint[1])
        resized == Whiteboard_resize(selectedWhiteboard[1], W.m.resizingHandle[1], delta)
        I == {i \in 1..Len(W.d.whiteboards) : W.d.whiteboards[i].selected}
    IN IF ~IsSome(W.m.dragStartPoint) \/ ~IsSome(W.m.resizingHandle) THEN W
       ELSE IF getSelectedWhiteboard_throws(W) THEN [W EXCEPT !.threw = TRUE]
       ELSE IF ~IsSome(selectedWhiteboard) THEN W
       ELSE [W EXCEPT !.d.whiteboards[MinOf(I)] = resized,
                      !.m.dragStartPoint = Some(point)]

\* handleMouseMove(point) as it would be if an arrow gesture dragged the
\* selection along
handleMouseMove_dragging(W, point) ==
    IF W.m.mode = "laser_active"
    THEN [W EXCEPT !.m.laserTrail =
                      LaserTrail_cleanup(LaserTrail_addPoint(@, point, W.now), W.now)]
    ELSE IF ~IsSome(W.m.dragStartPoint) THEN W
    ELSE CASE W.m.mode \in {"dragging", "creating_arrow"} -> handleDragging(W, point)
           [] W.m.mode = "panning" -> handlePanning(W, point)
           [] W.m.mode = "box_selecting" -> handleBoxSelecting(W, point)
           [] W.m.mode = "resizing_whiteboard" -> handleResizingWhiteboard(W, point)
           [] OTHER -> W

\* handleMouseMove(point)
handleMouseMove(W, point) ==
    IF W.m.mode = "laser_active"
    THEN [W EXCEPT !.m.laserTrail =
                      LaserTrail_cleanup(LaserTrail_addPoint(@, point, W.now), W.now)]
    ELSE IF ~IsSome(W.m.dragStartPoint) THEN W
    ELSE CASE W.m.mode = "dragging" -> handleDragging(W, point)
           [] W.m.mode = "panning" -> handlePanning(W, point)
           [] W.m.mode = "box_selecting" -> handleBoxSelecting(W, point)
           [] W.m.mode = "resizing_whiteboard" -> handleResizingWhiteboard(W, point)
           [] OTHER -> W

\* this.diagram.selectElement(newNode.id, false) on the node just made
selectNew(W, new) ==
    selectElement(W, W.h[new].id, FALSE)

\* this.diagram.addArrow(new Arrow(start, node)) for two Node objects
addArrowTo(W, start, node) ==
    addArrow([W EXCEPT !.n.arrow = @ + 1], newArrow(W, start, node, None, None, None))

\* handleMouseUp 645-650 as it would be with the two nodes of the arrow
\* exchanged
addArrowToId_reversed(W, start, endId) ==
    IF IsSome(getNode(W, endId)) THEN addArrowTo(W, getNode(W, endId)[1], start) ELSE W

\* handleMouseUp 645-650: the arrow is made when getNode(element.id) finds
\* the end node
addArrowToId(W, start, endId) ==
    IF IsSome(getNode(W, endId)) THEN addArrowTo(W, start, getNode(W, endId)[1]) ELSE W

\* handleMouseUp 652-675: released on empty space, far enough from the start
\* node: a node at the point, selected, and an arrow to it
ChainedCreation(W, point, start, new) ==
    addArrowTo(selectNew(addNode(newNode(W, point, "New Node", DEFAULT_STYLE), new), new),
               start, new)

\* the arrow gesture as it would end if a drop at exactly the minimum
\* distance were too short
CompleteArrow_strict(W, point, element) ==
    LET start == W.m.arrowStartNode[1]
        far == Dist2(W.h[start].position, point) >
                   (W.h[start].radius + MinArrowDropMargin)
                     * (W.h[start].radius + MinArrowDropMargin)
    IN IF IsSome(element) /\ element[1].type = "node"
          /\ element[1].id # W.h[start].id
       THEN [W |-> [addArrowToId(W, start, element[1].id)
                      EXCEPT !.m.arrowStartNode = None],
             done |-> FALSE]
       ELSE IF ~IsSome(element) /\ far
       THEN [W |-> [ChainedCreation(W, point, start, W.n.node)
                      EXCEPT !.m.arrowStartNode = None],
             done |-> TRUE]
       ELSE [W |-> [W EXCEPT !.m.arrowStartNode = None], done |-> FALSE]

\* the arrow gesture as it would end without the comparison of the node
\* hit with the start node
CompleteArrow_anyNode(W, point, element) ==
    LET start == W.m.arrowStartNode[1]
        far == Dist2(W.h[start].position, point) >=
                   (W.h[start].radius + MinArrowDropMargin)
                     * (W.h[start].radius + MinArrowDropMargin)
    IN IF IsSome(element) /\ element[1].type = "node"
       THEN [W |-> [addArrowToId(W, start, element[1].id)
                      EXCEPT !.m.arrowStartNode = None],
             done |-> FALSE]
       ELSE IF ~IsSome(element) /\ far
       THEN [W |-> [ChainedCreation(W, point, start, W.n.node)
                      EXCEPT !.m.arrowStartNode = None],
             done |-> TRUE]
       ELSE [W |-> [W EXCEPT !.m.arrowStartNode = None], done |-> FALSE]

\* handleMouseUp, the arrow gesture (641-675), element being the result of
\* findElementAtPoint(point): done is TRUE when the handler returns from
\* inside the branch
CompleteArrow(W, point, element) ==
    LET start == W.m.arrowStartNode[1]
        far == Dist2(W.h[start].position, point) >=
                   (W.h[start].radius + MinArrowDropMargin)
                     * (W.h[start].radius + MinArrowDropMargin)
    IN IF IsSome(element) /\ element[1].type = "node"
          /\ element[1].id # W.h[start].id
       THEN [W |-> [addArrowToId(W, start, element[1].id)
                      EXCEPT !.m.arrowStartNode = None],
             done |-> FALSE]
       ELSE IF ~IsSome(element) /\ far
       THEN [W |-> [ChainedCreation(W, point, start, W.n.node)
                      EXCEPT !.m.arrowStartNode = None],
             done |-> TRUE]
       ELSE [W |-> [W EXCEPT !.m.arrowStartNode = None], done |-> FALSE]

\* handleMouseUp 677-686: the box selection is applied when it is significant
SettleBoxSelection(W) ==
    IF W.m.mode = "box_selecting" /\ IsSome(W.m.selectionBox)
    THEN [(IF isSignificant(W.m.selectionBox[1])
           THEN selectElements(W, findElementsInBox(W, W.m.selectionBox[1]), FALSE)
           ELSE W) EXCEPT !.m.selectionBox = None]
    ELSE W

\* handleMouseUp 688-692
SettleLaser(W) ==
    IF W.m.mode = "laser_active" THEN [W EXCEPT !.m.mode = "idle"] ELSE W

\* handleMouseUp 694-704
SettleDragged(W) ==
    IF IsSome(W.m.draggedElementId)
    THEN [SetDraggingFlags(W, W.m.draggedElementId[1], FALSE)
            EXCEPT !.m.draggedElementId = None]
    ELSE W

\* handleMouseUp 706-716
SettleMode(W) ==
    [W EXCEPT !.m.resizingHandle = IF W.m.mode = "resizing_whiteboard" THEN None ELSE @,
              !.m.dragStartPoint = None,
              !.m.mode = IF @ # "editing_text" THEN "idle" ELSE @]

\* handleMouseUp, the rest (677-716)
SettleMouseUp(W) ==
    SettleMode(SettleDragged(SettleLaser(SettleBoxSelection(W))))

\* the rest of handleMouseUp unless the arrow gesture returned
SettleUnlessDone(r) ==
    IF r.done THEN r.W ELSE SettleMouseUp(r.W)

\* handleMouseUp(point) as it would be if the release of the laser cleared
\* the trail
handleMouseUp_clearing(W, point) ==
    LET Up == IF W.m.mode = "creating_arrow" /\ IsSome(W.m.arrowStartNode)
              THEN SettleUnlessDone(CompleteArrow(W, point, findElementAtPoint(W, point)))
              ELSE SettleMouseUp(W)
    IN IF W.m.mode = "laser_active" THEN [Up EXCEPT !.m.laserTrail = <<>>] ELSE Up

\* handleMouseUp(point)
handleMouseUp(W, point) ==
    IF W.m.mode = "creating_arrow" /\ IsSome(W.m.arrowStartNode)
    THEN SettleUnlessDone(CompleteArrow(W, point, findElementAtPoint(W, point)))
    ELSE SettleMouseUp(W)

\* handleDoubleClick(point) without the clearing of the dragging state that
\* the pointer-down left
handleDoubleClick_holding(W, point) ==
    LET element == findElementAtPoint(W, point)
    IN IF IsSome(element) /\ element[1].type \in {"node", "text"}
       THEN IF hasNode(W, element[1].id) \/ MapHas(W.d.textLabels, element[1].id)
            THEN onRequestTextEdit([W EXCEPT !.m.mode = "editing_text"], element[1].id,
                                   IF hasNode(W, element[1].id)
                                   THEN W.h[getNode(W, element[1].id)[1]].text
                                   ELSE MapGet(W.d.textLabels, element[1].id)[1].text)
            ELSE W
       ELSE IF W.m.currentTool = "arrow" THEN onToolChange(W, "select")
       ELSE W

\* handleDoubleClick(point)
handleDoubleClick(W, point) ==
    LET element == findElementAtPoint(W, point)
        W1 == IF IsSome(W.m.draggedElementId)
              THEN [SetDraggingFlags(W, W.m.draggedElementId[1], FALSE)
                      EXCEPT !.m.draggedElementId = None]
              ELSE W
    IN IF IsSome(element) /\ element[1].type \in {"node", "text"}
       THEN IF hasNode(W1, element[1].id) \/ MapHas(W1.d.textLabels, element[1].id)
            THEN onRequestTextEdit([W1 EXCEPT !.m.mode = "editing_text"], element[1].id,
                                   IF hasNode(W1, element[1].id)
                                   THEN W1.h[getNode(W1, element[1].id)[1]].text
                                   ELSE MapGet(W1.d.textLabels, element[1].id)[1].text)
            ELSE W1
       ELSE IF W.m.currentTool = "arrow" THEN onToolChange(W, "select")
       ELSE W

\* the texts that trim() empties
BlankTexts == {"", " ", "  "}

\* label.setText(text): the width follows the length of the text
TextLabel_setText(label, text) ==
    [label EXCEPT !.text = text, !.width = Max2(LabelWidth, Len(text) * 10)]

\* updateElementText as it would be if it kept a label whose text is blank
updateElementText_keeping(W, elementId, text) ==
    LET W1 == [W EXCEPT !.h = [u \in DOMAIN W.h |->
                   IF u \in Range(W.d.nodes) /\ W.h[u].id = elementId
                   THEN [W.h[u] EXCEPT !.text = text] ELSE W.h[u]]]
        W2 == [W1 EXCEPT !.d.textLabels = [i \in 1..Len(@) |->
                            IF @[i].id = elementId THEN TextLabel_setText(@[i], text)
                            ELSE @[i]]]
    IN [W2 EXCEPT !.m.mode = "idle"]

\* updateElementText(elementId, text)
updateElementText(W, elementId, text) ==
    LET W1 == [W EXCEPT !.h = [u \in DOMAIN W.h |->
                   IF u \in Range(W.d.nodes) /\ W.h[u].id = elementId
                   THEN [W.h[u] EXCEPT !.text = text] ELSE W.h[u]]]
        W2 == IF MapHas(W1.d.textLabels, elementId)
              THEN IF text \in BlankTexts THEN removeTextLabel(W1, elementId)
                   ELSE [W1 EXCEPT !.d.textLabels = [i \in 1..Len(@) |->
                            IF @[i].id = elementId THEN TextLabel_setText(@[i], text)
                            ELSE @[i]]]
              ELSE W1
    IN [W2 EXCEPT !.m.mode = "idle"]

\* handleKeyDown(key) with an Escape that does not stop at the first level
\* that applies: the selection is cleared and the Select tool requested in
\* one key-down
handleKeyDown_falling(W, key) ==
    CASE key \in {"Delete", "Backspace"} ->
            IF W.m.mode # "editing_text" THEN deleteSelected(W) ELSE W
      [] key = "Escape" ->
            IF W.m.mode = "creating_arrow"
            THEN [W EXCEPT !.m.arrowStartNode = None, !.m.mode = "idle"]
            ELSE IF W.m.mode = "editing_text" THEN [W EXCEPT !.m.mode = "idle"]
            ELSE IF W.m.mode = "box_selecting"
            THEN [W EXCEPT !.m.selectionBox = None, !.m.mode = "idle"]
            ELSE IF W.m.currentTool # "select"
            THEN onToolChange(clearSelection(W), "select")
            ELSE clearSelection(W)
      [] OTHER -> W

\* handleKeyDown(key) with a Delete that does not look at the mode
handleKeyDown_unguarded(W, key) ==
    CASE key \in {"Delete", "Backspace"} -> deleteSelected(W)
      [] key = "Escape" ->
            IF W.m.mode = "creating_arrow"
            THEN [W EXCEPT !.m.arrowStartNode = None, !.m.mode = "idle"]
            ELSE IF W.m.mode = "editing_text" THEN [W EXCEPT !.m.mode = "idle"]
            ELSE IF W.m.mode = "box_selecting"
            THEN [W EXCEPT !.m.selectionBox = None, !.m.mode = "idle"]
            ELSE IF Len(getSelectedIds(W)) > 0 THEN clearSelection(W)
            ELSE IF W.m.currentTool # "select" THEN onToolChange(W, "select")
            ELSE W
      [] OTHER -> W

\* handleKeyDown(key)
handleKeyDown(W, key) ==
    CASE key \in {"Delete", "Backspace"} ->
            IF W.m.mode # "editing_text" THEN deleteSelected(W) ELSE W
      [] key = "Escape" ->
            IF W.m.mode = "creating_arrow"
            THEN [W EXCEPT !.m.arrowStartNode = None, !.m.mode = "idle"]
            ELSE IF W.m.mode = "editing_text" THEN [W EXCEPT !.m.mode = "idle"]
            ELSE IF W.m.mode = "box_selecting"
            THEN [W EXCEPT !.m.selectionBox = None, !.m.mode = "idle"]
            ELSE IF Len(getSelectedIds(W)) > 0 THEN clearSelection(W)
            ELSE IF W.m.currentTool # "select" THEN onToolChange(W, "select")
            ELSE W
      [] OTHER -> W


(***************************************************************************)
(* The state machine.  An action runs one handler of the controller or one *)
(* operation of the Scene on the current world, lets the host apply the    *)
(* tool change the handler requested (StrategyMap keeps the tool in React  *)
(* state and Canvas calls setTool from an effect when it changes), and     *)
(* stores the result.  S is the scope of the exploration: the positions    *)
(* and whiteboard frames it may reach and the number of events it handles. *)
(***************************************************************************)
World ==
    [h |-> heap, d |-> diagram, m |-> im, n |-> nextId, req |-> None, threw |-> FALSE,
     edit |-> editingElement, asked |-> None, now |-> now]

\* the host's effect: setTool(currentTool) when the React state changed
HostApply(W) ==
    IF IsSome(W.req) /\ W.req[1] # W.m.currentTool THEN setTool(W, W.req[1]) ELSE W

\* the Node objects something still refers to
Referenced(W) ==
    Range(W.d.nodes) \cup {a.fromNode : a \in Range(W.d.arrows)}
      \cup {a.toNode : a \in Range(W.d.arrows)} \cup Range(W.m.arrowStartNode)

Frame(wb) == [position |-> wb.position, width |-> wb.width, height |-> wb.height]

\* every arrow joins two centres at an integer distance (see CentreDistance)
WholeDistances(W) ==
    \A a \in Range(W.d.arrows) :
        LET d == PointSubtract(W.h[a.toNode].position, W.h[a.fromNode].position)
        IN \/ d.x = 0
           \/ d.y = 0
           \/ \E l \in 1..(Abs(d.x) + Abs(d.y)) : l * l = d.x * d.x + d.y * d.y

InScope(S, W) ==
    /\ W.n.node <= S.maxNode
    /\ W.n.arrow <= S.maxArrow
    /\ W.n.text <= S.maxText
    /\ \A u \in Range(W.d.nodes) : W.h[u].position \in S.positions
    /\ \A l \in Range(W.d.textLabels) : l.position \in S.positions
    /\ \A wb \in Range(W.d.whiteboards) : Frame(wb) \in S.frames
    /\ WholeDistances(W)

\* the objects of each class an operation constructed
Made(W) ==
    [node |-> W.n.node - nextId.node, arrow |-> W.n.arrow - nextId.arrow,
     text |-> W.n.text - nextId.text, whiteboard |-> W.n.whiteboard - nextId.whiteboard]

NothingMade == [node |-> 0, arrow |-> 0, text |-> 0, whiteboard |-> 0]

\* the world after an operation becomes the state, with the timer the
\* operation leaves pending
StoreWith(W, op, timeout) ==
    /\ heap' = [u \in Referenced(W) |-> W.h[u]]
    /\ diagram' = W.d
    /\ im' = W.m
    /\ nextId' = W.n
    /\ editingElement' = W.edit
    /\ last' = [op |-> op, req |-> W.req, made |-> Made(W), threw |-> W.threw]
    /\ calls' = calls + 1
    /\ now' = now
    /\ exitEditingTimeout' = timeout

\* the controller and the Scene know of no timer
Store(W, op) == StoreWith(W, op, exitEditingTimeout)

Commit(S, W, op) ==
    /\ calls < S.maxCalls
    /\ InScope(S, W)
    /\ Store(W, op)

\* a page that has just loaded: no object was constructed yet
NewPage ==
    [h |-> <<>>, d |-> <<>>, m |-> newInteractionManager,
     n |-> [node |-> 0, arrow |-> 0, text |-> 0, whiteboard |-> 0], req |-> None,
     threw |-> FALSE, edit |-> None, asked |-> None, now |-> 0]

\* new Diagram() and new InteractionManager(diagram)
Init ==
    /\ heap = newDiagram(NewPage).h
    /\ diagram = newDiagram(NewPage).d
    /\ im = newDiagram(NewPage).m
    /\ nextId = newDiagram(NewPage).n
    /\ clipboard = None
    /\ storage = None
    /\ editingElement = None
    /\ last = [op |-> "new", req |-> None, made |-> NothingMade, threw |-> FALSE]
    /\ calls = 0
    /\ now = 0
    /\ exitEditingTimeout = None

(***************************************************************************)
(* Controller events.                                                      *)
(***************************************************************************)
\* while the host edits a text a pointer-down and a key stay with the host
\* (Canvas handleMouseDown, the keydown listener)
MouseDown(S, point, shiftKey) ==
    /\ editingElement = None
    /\ Commit(S, HostApply(handleMouseDown(World, point, shiftKey)), "handleMouseDown")
    /\ UNCHANGED <<clipboard, storage>>

\* Canvas handleMouseMove: outside panning the canvas point goes to
\* handleMouseMove
MouseMove(S, point) ==
    /\ im.mode # "panning"
    /\ Commit(S, HostApply(handleMouseMove(World, point)), "handleMouseMove")
    /\ UNCHANGED <<clipboard, storage>>

\* Canvas handleMouseMove while panning: the screen point goes to
\* handlePanningWithScreenCoords
PanMove(S, screenPoint) ==
    /\ im.mode = "panning"
    /\ Commit(S, handlePanningWithScreenCoords(World, screenPoint),
              "handlePanningWithScreenCoords")
    /\ UNCHANGED <<clipboard, storage>>

\* Canvas handleWheel without Ctrl or Cmd: a two-finger slide
Wheel(S, deltaX, deltaY) ==
    /\ Commit(S, applyWheelPan(World, deltaX, deltaY), "applyWheelPan")
    /\ UNCHANGED <<clipboard, storage>>

\* the animation loop of Canvas: while the trail has points the old ones
\* are removed on every frame
Frame_cleanup(W) ==
    IF W.m.laserTrail # <<>>
    THEN [W EXCEPT !.m.laserTrail = LaserTrail_cleanup(@, W.now)] ELSE W

AnimationFrame(S) ==
    /\ Commit(S, Frame_cleanup(World), "animate")
    /\ UNCHANGED <<clipboard, storage>>

\* time passes
Tick(dt, until) ==
    /\ now + dt <= until
    /\ now' = now + dt
    /\ UNCHANGED <<heap, diagram, im, nextId, clipboard, storage, editingElement, last,
                   calls, exitEditingTimeout>>

MouseUp(S, point) ==
    /\ Commit(S, HostApply(handleMouseUp(World, point)), "handleMouseUp")
    /\ UNCHANGED <<clipboard, storage>>

KeyDown(S, key) ==
    /\ editingElement = None
    /\ Commit(S, HostApply(handleKeyDown(World, key)), "handleKeyDown")
    /\ UNCHANGED <<clipboard, storage>>

\* the toolbar: the host's tool state changes and the effect of Canvas calls
\* setTool; choosing the tool that is on changes no state and runs nothing
SetTool(S, tool) ==
    /\ tool # im.currentTool
    /\ Commit(S, setTool(World, tool), "setTool")
    /\ UNCHANGED <<clipboard, storage>>

(***************************************************************************)
(* The editor: nodes, labels and arrows made with the tools on the default *)
(* whiteboard.                                                             *)
(***************************************************************************)
DefaultFrame ==
    [position |-> Pt(-(DefaultWhiteboardWidth \div 2), -(DefaultWhiteboardHeight \div 2)),
     width |-> DefaultWhiteboardWidth, height |-> DefaultWhiteboardHeight]

\* the pointer positions: 100 lies closer to 0 than the drop margin of an
\* arrow, 240 lies at exactly that margin from 100
Points == {Pt(0, 0), Pt(100, 0), Pt(240, 0)}

EditorTools == {"select", "node", "arrow", "text"}

Keys == {"Delete", "Backspace", "Escape"}

EditorScope ==
    [positions |-> Points, frames |-> {DefaultFrame},
     maxNode |-> MaxNodeId, maxArrow |-> MaxArrowId, maxText |-> MaxTextId,
     maxCalls |-> MaxEvents]

Next ==
    \/ \E point \in Points : MouseDown(EditorScope, point, FALSE)
    \/ \E point \in Points : MouseMove(EditorScope, point)
    \/ \E point \in Points : MouseUp(EditorScope, point)
    \/ \E key \in Keys : KeyDown(EditorScope, key)
    \/ \E tool \in EditorTools : SetTool(EditorScope, tool)

Spec == Init /\ [][Next]_vars

(***************************************************************************)
(* Box selection: pointer positions to the right of the default            *)
(* whiteboard, where a pointer-down of the Select tool hits no whiteboard. *)
(***************************************************************************)
BoxPoints == {Pt(938, 0), Pt(941, 0), Pt(1000, 0)}

BoxTools == {"select", "node"}

BoxScope ==
    [positions |-> BoxPoints, frames |-> {DefaultFrame},
     maxNode |-> MaxNodeId, maxArrow |-> MaxArrowId, maxText |-> MaxTextId,
     maxCalls |-> MaxBoxEvents]

BoxNext ==
    \/ \E point \in BoxPoints, shiftKey \in BOOLEAN : MouseDown(BoxScope, point, shiftKey)
    \/ \E point \in BoxPoints : MouseMove(BoxScope, point)
    \/ \E point \in BoxPoints : MouseUp(BoxScope, point)
    \/ \E tool \in BoxTools : SetTool(BoxScope, tool)

SpecBox == Init /\ [][BoxNext]_vars

(***************************************************************************)
(* Dragging at the right edge of the default whiteboard, which ends at     *)
(* x = 800: a node at 790 lies in it, a pointer-down at 720 or at 700 hits *)
(* the whiteboard and no node.                                             *)
(***************************************************************************)
DragPoints == {Pt(700, 0), Pt(720, 0), Pt(790, 0)}

\* where a drag may take a node or a label, and the whiteboard
DragPositions == {Pt(x, 0) : x \in 400..1100}

DragFrames ==
    {[DefaultFrame EXCEPT !.position = PointAdd(@, Pt(dx, 0))] : dx \in -400..400}

DragScope ==
    [positions |-> DragPositions, frames |-> DragFrames,
     maxNode |-> MaxNodeId, maxArrow |-> MaxArrowId, maxText |-> MaxTextId,
     maxCalls |-> MaxDragEvents]

DragNext ==
    \/ \E point \in DragPoints, shiftKey \in BOOLEAN : MouseDown(DragScope, point, shiftKey)
    \/ \E point \in DragPoints : MouseMove(DragScope, point)
    \/ \E point \in DragPoints : MouseUp(DragScope, point)
    \/ \E tool \in BoxTools : SetTool(DragScope, tool)

SpecDrag == Init /\ [][DragNext]_vars

(***************************************************************************)
(* Text editing: a double click opens an edit session on a node or a       *)
(* label, the host keeps the element, and Enter, a click outside or Escape *)
(* ends the session.                                                       *)
(***************************************************************************)
EditPoints == {Pt(0, 0), Pt(240, 0)}

\* what an edit session may leave as the text
Texts == {"", " ", "Plan"}

EditScope ==
    [positions |-> EditPoints, frames |-> {DefaultFrame},
     maxNode |-> MaxNodeId, maxArrow |-> MaxArrowId, maxText |-> MaxTextId,
     maxCalls |-> MaxEditEvents]

\* what the callback of the exit timer captured when it was scheduled: the
\* editingElement of that render, its element and its text.  cancelled is
\* history: it notes that Escape has ended the session since, and no code
\* reads it
Captured(id, text) == [element |-> id, text |-> text, cancelled |-> FALSE]

Cancelled(timeout) ==
    IF IsSome(timeout) THEN Some([timeout[1] EXCEPT !.cancelled = TRUE]) ELSE None

\* the timer after Canvas handleMouseDown in a session: a double click and a
\* click inside the edited element clear it, a click outside schedules a
\* new one in place of the pending one
TimeoutAfterClick(W, point, isDoubleClick, text) ==
    LET clickedElement == findElementAtPoint(W, point)
    IN IF isDoubleClick THEN None
       ELSE IF IsSome(clickedElement) /\ clickedElement[1].id = W.edit[1] THEN None
       ELSE Some(Captured(W.edit[1], text))

\* the callback of the exit timer: updateElementText with the captured
\* element and text, setEditingElement(null)
exitEditing(W, captured) ==
    [updateElementText(W, captured.element, captured.text) EXCEPT !.edit = None]

\* Canvas handleDoubleClick: the controller is called unless a session is open
DoubleClick(S, point) ==
    /\ editingElement = None
    /\ Commit(S, HostApply(handleDoubleClick(World, point)), "handleDoubleClick")
    /\ UNCHANGED <<clipboard, storage>>

\* the tool the host asks for when a session ends: Arrow after a node was
\* edited with the Node tool, Select after a label with the Text tool
ToolAfterEdit(W, id) ==
    IF id[1] = "node" /\ W.m.currentTool = "node" THEN onToolChange(W, "arrow")
    ELSE IF id[1] = "text" /\ W.m.currentTool = "text" THEN onToolChange(W, "select")
    ELSE W

\* Enter (Cmd+Enter in a label), or the timeout after a click outside the
\* element: updateElementText(editingElement.element.id, editingElement.text)
\* and setEditingElement(null); the key also changes the tool
CommitText(S, text, key) ==
    /\ IsSome(editingElement)
    /\ Commit(S, HostApply(IF key THEN ToolAfterEdit([updateElementText(World, editingElement[1], text)
                                                      EXCEPT !.edit = None],
                                                   editingElement[1])
                           ELSE [updateElementText(World, editingElement[1], text)
                                   EXCEPT !.edit = None]),
              "updateElementText")
    /\ UNCHANGED <<clipboard, storage>>

\* Escape in a session: setEditingElement(null), the tool request of the
\* host, then handleKeyDown('Escape'), whose own request comes last
\* Escape clears no timer: a pending one stays, and its record notes that
\* the session it was scheduled in has been cancelled
CancelEdit(S) ==
    /\ IsSome(editingElement)
    /\ calls < S.maxCalls
    /\ LET W == HostApply(handleKeyDown(ToolAfterEdit([World EXCEPT !.edit = None],
                                                     editingElement[1]),
                                       "Escape"))
       IN /\ InScope(S, W)
          /\ StoreWith(W, "handleKeyDown", Cancelled(exitEditingTimeout))
    /\ UNCHANGED <<clipboard, storage>>

EditNext ==
    \/ \E point \in EditPoints : MouseDown(EditScope, point, FALSE)
    \/ \E point \in EditPoints : MouseMove(EditScope, point)
    \/ \E point \in EditPoints : MouseUp(EditScope, point)
    \/ \E point \in EditPoints : DoubleClick(EditScope, point)
    \/ \E text \in Texts, key \in BOOLEAN : CommitText(EditScope, text, key)
    \/ CancelEdit(EditScope)
    \/ \E key \in Keys : KeyDown(EditScope, key)
    \/ \E tool \in EditorTools : SetTool(EditScope, tool)

SpecEdit == Init /\ [][EditNext]_vars

(***************************************************************************)
(* Text editing with the exit timer of Canvas: a click outside the edited  *)
(* element schedules the commit 200 ms later, and everything the user does *)
(* in those 200 ms happens before the callback runs.                       *)
(***************************************************************************)
SessionScope ==
    [positions |-> EditPoints, frames |-> {DefaultFrame},
     maxNode |-> MaxNodeId, maxArrow |-> MaxArrowId, maxText |-> MaxTextId,
     maxCalls |-> MaxSessionEvents]

\* Canvas handleMouseDown while a session is open: the controller is not
\* called; text is the text of the session at the click
EditingMouseDown(S, point, isDoubleClick, text) ==
    /\ IsSome(editingElement)
    /\ calls < S.maxCalls
    /\ StoreWith(World, "Canvas.handleMouseDown",
                 TimeoutAfterClick(World, point, isDoubleClick, text))
    /\ UNCHANGED <<clipboard, storage>>

\* the 200 ms are over
TimeoutFires(S) ==
    /\ IsSome(exitEditingTimeout)
    /\ calls < S.maxCalls
    /\ InScope(S, exitEditing(World, exitEditingTimeout[1]))
    /\ StoreWith(exitEditing(World, exitEditingTimeout[1]), "exitEditingTimeout", None)
    /\ UNCHANGED <<clipboard, storage>>

SessionTools == {"select", "node"}

SessionNext ==
    \/ \E point \in EditPoints : MouseDown(SessionScope, point, FALSE)
    \/ \E point \in EditPoints : MouseMove(SessionScope, point)
    \/ \E point \in EditPoints : MouseUp(SessionScope, point)
    \/ \E point \in EditPoints : DoubleClick(SessionScope, point)
    \/ \E point \in EditPoints, isDoubleClick \in BOOLEAN, text \in Texts :
          EditingMouseDown(SessionScope, point, isDoubleClick, text)
    \/ \E text \in Texts : CommitText(SessionScope, text, TRUE)
    \/ CancelEdit(SessionScope)
    \/ TimeoutFires(SessionScope)
    \/ \E tool \in SessionTools : SetTool(SessionScope, tool)

SpecSession == Init /\ [][SessionNext]_vars

(***************************************************************************)
(* Selecting: clicks with and without Shift on nodes, labels and arrows,   *)
(* on the bare whiteboard and, at x = 938, off every whiteboard, with the  *)
(* keys and the edit sessions.                                             *)
(***************************************************************************)
SelectPoints == {Pt(0, 0), Pt(100, 0), Pt(240, 0), Pt(938, 0)}

SelectScope ==
    [positions |-> SelectPoints, frames |-> {DefaultFrame},
     maxNode |-> MaxNodeId, maxArrow |-> MaxArrowId, maxText |-> MaxTextId,
     maxCalls |-> MaxSelectEvents]

SelectNext ==
    \/ \E point \in SelectPoints, shiftKey \in BOOLEAN :
          MouseDown(SelectScope, point, shiftKey)
    \/ \E point \in SelectPoints : MouseMove(SelectScope, point)
    \/ \E point \in SelectPoints : MouseUp(SelectScope, point)
    \/ \E point \in SelectPoints : DoubleClick(SelectScope, point)
    \/ \E text \in Texts, key \in BOOLEAN : CommitText(SelectScope, text, key)
    \/ CancelEdit(SelectScope)
    \/ \E key \in Keys : KeyDown(SelectScope, key)
    \/ \E tool \in EditorTools : SetTool(SelectScope, tool)

SpecSelect == Init /\ [][SelectNext]_vars

(***************************************************************************)
(* Resizing the default whiteboard, which reaches from (-800, -600) to     *)
(* (800, 600): (800, 0) is the handle in the middle of its right edge,     *)
(* (-800, -600) the handle of its top left corner, (-500, 0) a point on    *)
(* it that is closer to its left edge than the minimum width.              *)
(***************************************************************************)
ResizePoints == {Pt(-500, 0), Pt(800, 0), Pt(-800, -600)}

ResizeFrames ==
    [position : [x : -MaxReach..MaxReach, y : -MaxReach..MaxReach],
     width : 0..MaxReach, height : 0..MaxReach]

ResizeScope ==
    [positions |-> ResizePoints, frames |-> ResizeFrames,
     maxNode |-> MaxNodeId, maxArrow |-> MaxArrowId, maxText |-> MaxTextId,
     maxCalls |-> MaxResizeEvents]

ResizeNext ==
    \/ \E point \in ResizePoints, shiftKey \in BOOLEAN :
          MouseDown(ResizeScope, point, shiftKey)
    \/ \E point \in ResizePoints : MouseMove(ResizeScope, point)
    \/ \E point \in ResizePoints : MouseUp(ResizeScope, point)
    \/ \E tool \in BoxTools : SetTool(ResizeScope, tool)

SpecResize == Init /\ [][ResizeNext]_vars

(***************************************************************************)
(* The view: the Pan and Laser tools, the wheel and the animation loop,    *)
(* over a Scene with nodes made with the Node tool and arrow gestures.     *)
(***************************************************************************)
ViewPoints == {Pt(0, 0), Pt(240, 0)}

ScreenPoints == {Pt(0, 0), Pt(30, 0), Pt(30, 40)}

\* the deltas of a wheel event
WheelDeltas == {Pt(10, 0), Pt(0, -20)}

ViewTools == {"select", "node", "arrow", "pan", "laser"}

ViewScope ==
    [positions |-> ViewPoints, frames |-> {DefaultFrame},
     maxNode |-> MaxNodeId, maxArrow |-> MaxArrowId, maxText |-> MaxTextId,
     maxCalls |-> MaxViewEvents]

\* the clock is read only for the points of the trail
ViewTick ==
    /\ im.laserTrail # <<>>
    /\ Tick(ClockStep, MaxClock)

ViewNext ==
    \/ \E point \in ViewPoints : MouseDown(ViewScope, point, FALSE)
    \/ \E point \in ViewPoints : MouseMove(ViewScope, point)
    \/ \E screenPoint \in ScreenPoints : PanMove(ViewScope, screenPoint)
    \/ \E point \in ViewPoints : MouseUp(ViewScope, point)
    \/ \E delta \in WheelDeltas : Wheel(ViewScope, delta.x, delta.y)
    \/ \E tool \in ViewTools : SetTool(ViewScope, tool)
    \/ AnimationFrame(ViewScope)
    \/ ViewTick

SpecView == Init /\ [][ViewNext]_vars

(***************************************************************************)
(* The trail as a class: addPoint() and cleanup() called in any order      *)
(* while time passes.  The pointer moves one pixel to the right from one   *)
(* point to the next, so that every point of a run is another.             *)
(***************************************************************************)
PointerAt(k) == Pt(k, 0)

\* laserTrail.addPoint(point)
TrailAdd ==
    /\ calls < MaxTrailPoints
    /\ Store([World EXCEPT !.m.laserTrail =
                               LaserTrail_addPoint(@, PointerAt(calls), now)],
             "addPoint")
    /\ UNCHANGED <<clipboard, storage>>

\* laserTrail.cleanup()
TrailCleanup ==
    /\ im' = [im EXCEPT !.laserTrail = LaserTrail_cleanup(@, now)]
    /\ last' = [last EXCEPT !.op = "cleanup"]
    /\ UNCHANGED <<heap, diagram, nextId, clipboard, storage, editingElement, calls, now,
                   exitEditingTimeout>>

TrailTick == Tick(TrailStep, MaxTrailClock)

TrailNext ==
    \/ TrailAdd
    \/ TrailCleanup
    \/ TrailTick

SpecTrail == Init /\ [][TrailNext]_vars

(***************************************************************************)
(* The Scene as a library.  A caller builds a Scene with the constructors, *)
(* addNode, addArrow, addTextLabel, addWhiteboard and selectElement, and   *)
(* then runs operations of the Diagram and of storage on it.               *)
(***************************************************************************)
RED == "#e03131"

YELLOW == "#fab005"

StrokeThick == 4

\* the sequence 1, ..., k
Count(k) == [i \in 1..k |-> i]

\* diagram.addNode(new Node(position, 'Node', style)): the nodes lie on a
\* row, every second one is given a background colour
PutNode(W, k) ==
    addNode(newNode(W, Pt(100 * k, 0), "Node",
                    IF k % 2 = 0 THEN [backgroundColor |-> RED] ELSE DEFAULT_STYLE),
            W.n.node)

\* diagram.addArrow(new Arrow(...)) between the first two nodes: a plain
\* arrow from the first to the second, a styled one back
PutArrow(W, plan) ==
    IF plan = "plain" THEN addArrowTo(W, W.d.nodes[1], W.d.nodes[2])
    ELSE addArrow([W EXCEPT !.n.arrow = @ + 1],
                  newArrow(W, W.d.nodes[2], W.d.nodes[1], Some(BLUE), Some(StrokeThick),
                           Some("dashed")))

\* diagram.addTextLabel(new TextLabel(position, 'Text'))
PutLabel(W, k) ==
    addTextLabel([W EXCEPT !.n.text = @ + 1], newTextLabel(W, Pt(100 * k, 200), "Text"))

\* diagram.addWhiteboard(new Whiteboard(position, width, height, colour)),
\* to the right of the whiteboards before it
PutBoard(W, k) ==
    addWhiteboard([W EXCEPT !.n.whiteboard = @ + 1],
                  newWhiteboard(W, Pt(k * (DefaultWhiteboardWidth + WhiteboardGap)
                                        - DefaultWhiteboardWidth \div 2,
                                      -(DefaultWhiteboardHeight \div 2)),
                                DefaultWhiteboardWidth, DefaultWhiteboardHeight, YELLOW))

\* the arrows a Scene of n nodes is given
ArrowPlans(n) ==
    IF n < 2 THEN {<<>>} ELSE {<<>>, <<"plain">>, <<"styled">>, <<"plain", "styled">>}

\* a new Diagram with n nodes, the arrows of the plan, labels and more
\* whiteboards
Built(n, plan, labels, boards) ==
    FoldSeq(PutBoard,
        FoldSeq(PutLabel,
            FoldSeq(PutArrow, FoldSeq(PutNode, newDiagram(NewPage), Count(n)), plan),
            Count(labels)),
        Count(boards))

\* the ids of everything in the Scene
ElementIds(W) ==
    NodeIds(W) \o IdsOf(W.d.arrows) \o IdsOf(W.d.textLabels) \o IdsOf(W.d.whiteboards)

\* diagram.selectElement(id, true)
AddToSelection(W, id) == selectElement(W, id, TRUE)

\* the elements of X are selected one after the other
WithSelection(W, X) ==
    FoldSeq(AddToSelection, W, SelectSeq(ElementIds(W), LAMBDA id : id \in X))

SceneIs(W) ==
    /\ heap = W.h
    /\ diagram = W.d
    /\ im = W.m
    /\ nextId = W.n
    /\ clipboard = None
    /\ storage = None
    /\ editingElement = None
    /\ last = [op |-> "new", req |-> None, made |-> NothingMade, threw |-> FALSE]
    /\ calls = 0
    /\ now = 0
    /\ exitEditingTimeout = None

SceneInit ==
    \E n \in 0..MaxSceneNodes, labels \in 0..MaxSceneLabels, boards \in 0..MaxSceneBoards :
        \E plan \in ArrowPlans(n) :
            \E X \in SUBSET Range(ElementIds(Built(n, plan, labels, boards))) :
                /\ Cardinality(X) <= MaxSelected
                /\ SceneIs(WithSelection(Built(n, plan, labels, boards), X))

\* one operation of the library
SceneCall(W, op) ==
    /\ calls < MaxCalls
    /\ Store(W, op)

RemoveNode(nodeId) ==
    /\ SceneCall(removeNode(World, nodeId), "removeNode")
    /\ UNCHANGED <<clipboard, storage>>

RemoveWhiteboard(whiteboardId) ==
    /\ SceneCall(removeWhiteboard(World, whiteboardId), "removeWhiteboard")
    /\ UNCHANGED <<clipboard, storage>>

DeleteSelected ==
    /\ SceneCall(deleteSelected(World), "deleteSelected")
    /\ UNCHANGED <<clipboard, storage>>

DuplicateSelected ==
    /\ SceneCall(duplicateSelected(World), "duplicateSelected")
    /\ UNCHANGED <<clipboard, storage>>

DuplicateWhiteboard(whiteboardId) ==
    /\ SceneCall(duplicateWhiteboard(World, whiteboardId), "duplicateWhiteboard")
    /\ UNCHANGED <<clipboard, storage>>

\* Cmd+C: the host keeps the document
Copy ==
    /\ clipboard' = Some(copySelectedToClipboard(World))
    /\ SceneCall(World, "copySelectedToClipboard")
    /\ UNCHANGED storage

\* the offsets of a paste: the default one and one along the row
Offsets == {DefaultPasteOffset, Pt(2 * DuplicateOffset, 0)}

\* Cmd+V: nothing is pasted while the host has no document
Paste(offset) ==
    /\ IsSome(clipboard)
    /\ SceneCall(pasteFromClipboard(World, clipboard[1], offset), "pasteFromClipboard")
    /\ UNCHANGED <<clipboard, storage>>

Clear ==
    /\ SceneCall(clear(World), "clear")
    /\ UNCHANGED <<clipboard, storage>>

\* Diagram.fromJSON(diagram.toJSON()) replaces the Scene; the document is
\* handed over as it is or, as to the viewer, as JSON text
RoundTrip ==
    /\ \E text \in BOOLEAN :
          SceneCall(Diagram_fromJSON(World, IF text THEN JSON_text(Diagram_toJSON(World))
                                            ELSE Diagram_toJSON(World)), "fromJSON")
    /\ UNCHANGED <<clipboard, storage>>

\* the auto-save of the host
Save ==
    /\ storage' = Some(saveDiagram(World))
    /\ SceneCall(World, "saveDiagram")
    /\ UNCHANGED clipboard

\* StrategyMap mounts and takes its Diagram from storage: after a reload of
\* the page, where no object exists yet, or within the running page
Load ==
    /\ \E reload \in BOOLEAN :
          /\ IsSome(loadDiagram(IF reload THEN NewPage ELSE World, storage))
          /\ SceneCall(loadDiagram(IF reload THEN NewPage ELSE World, storage)[1],
                       "loadDiagram")
    /\ clipboard' = None
    /\ UNCHANGED storage

SceneNext ==
    \/ \E nodeId \in Range(NodeIds(World)) \cup {NodeIdOf(nextId.node)} : RemoveNode(nodeId)
    \/ \E id \in Range(IdsOf(diagram.whiteboards)) : RemoveWhiteboard(id)
    \/ DeleteSelected
    \/ DuplicateSelected
    \/ \E id \in Range(IdsOf(diagram.whiteboards)) : DuplicateWhiteboard(id)
    \/ Copy
    \/ \E offset \in Offsets : Paste(offset)
    \/ Clear
    \/ RoundTrip
    \/ Save
    \/ Load

SpecScene == SceneInit /\ [][SceneNext]_vars

(***************************************************************************)
(* pasteFromClipboard as a method of the library: it takes any string.     *)
(* The host keeps the text of its last copy in its own state and pastes    *)
(* that text (ViewDiagram.tsx 167, 280-281); a caller of the Diagram may   *)
(* pass a text that is no JSON or a document with an entry that cannot be  *)
(* read.  The variable clipboard holds the text of the next paste.         *)
(***************************************************************************)
\* the entry without its position
WithoutPosition(entry) ==
    [name \in DOMAIN entry \ {"position"} |-> entry[name]]

\* the document with entry i of the list damaged
EntryDamaged(data, list, i) ==
    [data EXCEPT ![list] = [@ EXCEPT ![i] = WithoutPosition(@)]]

Intact(text) ==
    /\ Parses(text)
    /\ \A entry \in Range(text.nodes) \cup Range(text.textLabels) : ~Throws(entry)

\* the text of the next paste is no JSON
Overwrite ==
    /\ IsSome(clipboard)
    /\ Intact(clipboard[1])
    /\ clipboard' = Some(NotJSON)
    /\ UNCHANGED <<heap, diagram, im, nextId, storage, editingElement, last, calls, now,
                   exitEditingTimeout>>

\* the text of the next paste is the document with one entry that has no
\* position
Damage(list) ==
    /\ IsSome(clipboard)
    /\ Intact(clipboard[1])
    /\ \E i \in 1..Len(clipboard[1][list]) :
          clipboard' = Some(EntryDamaged(clipboard[1], list, i))
    /\ UNCHANGED <<heap, diagram, im, nextId, storage, editingElement, last, calls, now,
                   exitEditingTimeout>>

\* diagram.pasteFromClipboard(text, offset)
PasteText(offset) ==
    /\ IsSome(clipboard)
    /\ SceneCall(pasteFromClipboardText(World, clipboard[1], offset).W, "pasteFromClipboard")
    /\ UNCHANGED <<clipboard, storage>>

PasteNext ==
    \/ Copy
    \/ Overwrite
    \/ \E list \in {"nodes", "textLabels"} : Damage(list)
    \/ \E offset \in Offsets : PasteText(offset)

SpecPaste == SceneInit /\ [][PasteNext]_vars

(***************************************************************************)
(* A Scene loaded with Diagram.fromJSON on a page that has just started:   *)
(* the id counters of the page start at 0 whatever ids the document holds. *)
(* The program loads a shared document this way (ViewDiagram.tsx 39-41)    *)
(* and hands the Diagram to the Canvas with the Select tool; here the      *)
(* public methods of Diagram and InteractionManager are applied to it.     *)
(***************************************************************************)
\* the Scene that was shared: built in the editor, the nodes, arrows and
\* labels of K deleted
Shared(n, plan, labels, K) ==
    deleteSelected(WithSelection(Built(n, plan, labels, 0), K))

\* ViewDiagram 39-41: the document arrives as JSON text
Viewed(S) == Diagram_fromJSON(NewPage, JSON_text(Diagram_toJSON(S)))

LoadedInit ==
    \E n \in 0..MaxSceneNodes, labels \in 0..MaxSceneLabels :
        \E plan \in ArrowPlans(n) :
            \E K \in SUBSET (Range(ElementIds(Built(n, plan, labels, 0)))
                                \ Range(IdsOf(Built(n, plan, labels, 0).d.whiteboards))) :
                SceneIs(Viewed(Shared(n, plan, labels, K)))

\* where the nodes and labels of a shared Scene lie, and their copies
LoadedPositions ==
    {Pt(x + d, y + d) : x \in {0, 100, 200, 240}, y \in {0, 200}, d \in {0, 20, 40}}

LoadedScope ==
    [positions |-> LoadedPositions, frames |-> {DefaultFrame},
     maxNode |-> MaxLoadedIds, maxArrow |-> MaxLoadedIds, maxText |-> MaxLoadedIds,
     maxCalls |-> MaxLoadedCalls]

LoadedTools == {"select", "node", "arrow"}

LoadedCall(W, op) ==
    /\ calls < MaxLoadedCalls
    /\ Store(W, op)

\* diagram.selectAll()
SelectAllLoaded ==
    /\ LoadedCall(selectAll(World), "selectAll")
    /\ UNCHANGED <<clipboard, storage>>

\* diagram.copySelectedToClipboard()
CopyLoaded ==
    /\ clipboard' = Some(copySelectedToClipboard(World))
    /\ LoadedCall(World, "copySelectedToClipboard")
    /\ UNCHANGED storage

\* diagram.pasteFromClipboard(data)
PasteLoaded ==
    /\ IsSome(clipboard)
    /\ LoadedCall(pasteFromClipboard(World, clipboard[1], DefaultPasteOffset),
                  "pasteFromClipboard")
    /\ UNCHANGED <<clipboard, storage>>

\* diagram.deleteSelected()
DeleteLoaded ==
    /\ LoadedCall(deleteSelected(World), "deleteSelected")
    /\ UNCHANGED <<clipboard, storage>>

\* diagram.duplicateSelected()
DuplicateLoaded ==
    /\ LoadedCall(duplicateSelected(World), "duplicateSelected")
    /\ UNCHANGED <<clipboard, storage>>

LoadedNext ==
    \/ \E point \in Points : MouseDown(LoadedScope, point, FALSE)
    \/ \E point \in Points : MouseUp(LoadedScope, point)
    \/ \E tool \in LoadedTools : SetTool(LoadedScope, tool)
    \/ SelectAllLoaded
    \/ CopyLoaded
    \/ PasteLoaded
    \/ DeleteLoaded
    \/ DuplicateLoaded

SpecLoaded == LoadedInit /\ [][LoadedNext]_vars

(***************************************************************************)
(* Properties of the editor (Spec).                                        *)
(***************************************************************************)
\* the world in which the next event arrives: the host has applied the
\* tool the handler requested
Handled(W) == [HostApply(W) EXCEPT !.req = None]

\* C1: every Arrow of the Scene has a fromNode and a toNode whose ids are
\* ids of Nodes that are in the Scene
ArrowNodeIntegrity ==
    \A a \in Range(diagram.arrows) :
        /\ hasNode(World, heap[a.fromNode].id)
        /\ hasNode(World, heap[a.toNode].id)

\* one Escape key-down, the host applying the tool it requests
PressEscape(W) == Handled(handleKeyDown(W, "Escape"))

\* tool = Select, empty selection, mode = Idle
AtRest(W) ==
    /\ W.m.currentTool = "select"
    /\ W.d.selectedElementIds = <<>>
    /\ W.m.mode = "idle"

\* C3: from the current tool, mode and selection, one, two or three Escape
\* key-downs with no other input in between lead to tool = Select, an empty
\* selection and mode = Idle
EscapeConvergence ==
    \/ AtRest(PressEscape(World))
    \/ AtRest(PressEscape(PressEscape(World)))
    \/ AtRest(PressEscape(PressEscape(PressEscape(World))))

\* the arrow gesture is under way: pointer-down of the Arrow tool on a node
ArrowGesture(W) ==
    /\ W.m.currentTool = "arrow"
    /\ W.m.mode = "creating_arrow"
    /\ IsSome(W.m.arrowStartNode)

\* After has the nodes of Before and then one more, at the point, which is
\* the selection; and the arrows of Before and then one more, from N to the
\* new node; no tool is requested and the tool stays Arrow
OneNodeAndArrowAdded(Before, After, N, point) ==
    /\ Len(After.d.nodes) = Len(Before.d.nodes) + 1
    /\ SubSeq(After.d.nodes, 1, Len(Before.d.nodes)) = Before.d.nodes
    /\ After.h[After.d.nodes[Len(After.d.nodes)]].position = point
    /\ ~hasNode(Before, After.h[After.d.nodes[Len(After.d.nodes)]].id)
    /\ After.d.selectedElementIds = <<After.h[After.d.nodes[Len(After.d.nodes)]].id>>
    /\ Len(After.d.arrows) = Len(Before.d.arrows) + 1
    /\ IdsOf(SubSeq(After.d.arrows, 1, Len(Before.d.arrows))) = IdsOf(Before.d.arrows)
    /\ After.d.arrows[Len(After.d.arrows)].fromNode = N
    /\ After.d.arrows[Len(After.d.arrows)].toNode = After.d.nodes[Len(After.d.nodes)]
    /\ After.req = None
    /\ HostApply(After).m.currentTool = "arrow"

\* After has the nodes and the arrows of Before
NothingAdded(Before, After) ==
    /\ After.d.nodes = Before.d.nodes
    /\ IdsOf(After.d.arrows) = IdsOf(Before.d.arrows)
    /\ \A i \in 1..Len(Before.d.arrows) :
          /\ After.d.arrows[i].fromNode = Before.d.arrows[i].fromNode
          /\ After.d.arrows[i].toNode = Before.d.arrows[i].toNode

\* the point lies at least radius + 80 from the centre of node N
FarFrom(W, N, point) ==
    Dist2(W.h[N].position, point) >= (W.h[N].radius + 80) * (W.h[N].radius + 80)

\* C9: during an arrow gesture from node N, a pointer-up on a point that
\* hits no entity adds one node at the point, selected alone, and one arrow
\* from N to it, and requests no tool change, when the point lies at least
\* N.radius + 80 from N; closer than that it adds no node and no arrow
ChainedCreationOnEmptySpace ==
    \A point \in Points :
        ArrowGesture(World) /\ ~IsSome(findElementAtPoint(World, point)) =>
            IF FarFrom(World, im.arrowStartNode[1], point)
            THEN OneNodeAndArrowAdded(World, handleMouseUp(World, point),
                                      im.arrowStartNode[1], point)
            ELSE NothingAdded(World, handleMouseUp(World, point))

\* a pointer-up has just made a node and an arrow and left the Arrow tool on
ChainedCreationDone ==
    /\ last.op = "handleMouseUp"
    /\ last.made.node = 1
    /\ last.made.arrow = 1
    /\ last.req = None
    /\ im.currentTool = "arrow"
    /\ Len(diagram.nodes) >= 2

\* After has the nodes of Before, and the arrows of Before and then one
\* more, from node A to the node of the Scene whose id is idB
OneArrowAdded(Before, After, A, idB) ==
    /\ After.d.nodes = Before.d.nodes
    /\ Len(After.d.arrows) = Len(Before.d.arrows) + 1
    /\ IdsOf(SubSeq(After.d.arrows, 1, Len(Before.d.arrows))) = IdsOf(Before.d.arrows)
    /\ After.d.arrows[Len(After.d.arrows)].fromNode = A
    /\ After.d.arrows[Len(After.d.arrows)].toNode \in Range(Before.d.nodes)
    /\ After.h[After.d.arrows[Len(After.d.arrows)].toNode].id = idB

\* the pointer-down left the Scene and the arrow gesture as they were
NoGestureStarted(Before, After) ==
    /\ After.d = Before.d
    /\ After.h = Before.h
    /\ After.m.mode = Before.m.mode
    /\ After.m.arrowStartNode = Before.m.arrowStartNode

\* the pointer-up of an arrow gesture from node A on the element hit
ReleaseOn(W, point, A, element) ==
    IF element.type = "node" /\ element.id # W.h[A].id
    THEN OneArrowAdded(W, handleMouseUp(W, point), A, element.id)
    ELSE NothingAdded(W, handleMouseUp(W, point))

\* C10: during an arrow gesture from node A, a pointer-up on another node B
\* adds one arrow from A to B and no node; a pointer-up on A, on a label or
\* on an arrow adds nothing; and a pointer-down of the Arrow tool that hits
\* no node starts no gesture
ConnectTwoNodes ==
    \A point \in Points :
        /\ ArrowGesture(World) /\ IsSome(findElementAtPoint(World, point)) =>
              ReleaseOn(World, point, im.arrowStartNode[1],
                        findElementAtPoint(World, point)[1])
        /\ /\ im.currentTool = "arrow"
           /\ \/ ~IsSome(findElementAtPoint(World, point))
              \/ findElementAtPoint(World, point)[1].type # "node"
           => \A shiftKey \in BOOLEAN :
                 NoGestureStarted(World, handleMouseDown(World, point, shiftKey))

\* a pointer-up has just made an arrow between two nodes of the Scene
TwoNodesConnected ==
    /\ last.op = "handleMouseUp"
    /\ last.made.node = 0
    /\ last.made.arrow = 1
    /\ Len(diagram.arrows) >= 1
    /\ diagram.arrows[Len(diagram.arrows)].fromNode
          # diagram.arrows[Len(diagram.arrows)].toNode

(***************************************************************************)
(* Properties of the box selection (SpecBox).                              *)
(***************************************************************************)
\* the pointer-down started a box selection
BoxStarted(W) == W.m.mode = "box_selecting" /\ IsSome(W.m.selectionBox)

\* the box after a pointer-move to q spans less than 5 in width and height
SmallBoxAt(W, q) ==
    /\ getWidth(handleMouseMove(W, q).m.selectionBox[1]) < 5
    /\ getHeight(handleMouseMove(W, q).m.selectionBox[1]) < 5

\* a pointer-move to q and the pointer-up at r
MoveAndRelease(W, q, r) == handleMouseUp(Handled(handleMouseMove(W, q)), r)

\* nothing is selected After that was not selected Before
NothingNewSelected(Before, After) ==
    Range(After.d.selectedElementIds) \subseteq Range(Before.d.selectedElementIds)

\* the gesture that went on from Down, the world after its pointer-down
SmallBoxGesture(Before, Down, q, r) ==
    BoxStarted(Down) /\ SmallBoxAt(Down, q) =>
        NothingNewSelected(Before, MoveAndRelease(Down, q, r))

\* C8: a box-select gesture (with the Select tool at rest, a pointer-down on
\* empty space, a pointer-move, a pointer-up) whose box spans less than 5 in
\* both width and height leaves nothing selected that was not selected
\* before it
SmallBoxSelectsNothing ==
    \A p \in BoxPoints, q \in BoxPoints, r \in BoxPoints, shiftKey \in BOOLEAN :
        im.currentTool = "select" /\ im.mode = "idle" =>
            SmallBoxGesture(World, Handled(handleMouseDown(World, p, shiftKey)), q, r)

(***************************************************************************)
(* Properties of the Scene (SpecScene).                                    *)
(***************************************************************************)
\* C2: the Scene has at least one whiteboard, and removeWhiteboard on the
\* only whiteboard changes nothing
LastWhiteboardStays ==
    /\ Len(diagram.whiteboards) >= 1
    /\ Len(diagram.whiteboards) = 1 =>
          removeWhiteboard(World, diagram.whiteboards[1].id) = World

\* removeWhiteboard has just run on a Scene that never had a second
\* whiteboard
OnlyWhiteboardKept ==
    /\ last.op = "removeWhiteboard"
    /\ nextId.whiteboard = 1
    /\ Len(diagram.whiteboards) = 1

\* the entities of a Scene, each with its id, position, text, size and
\* style attributes
SceneEntities(W) ==
    [nodes |-> {[id |-> W.h[u].id, position |-> W.h[u].position, text |-> W.h[u].text,
                 radius |-> W.h[u].radius, style |-> W.h[u].style,
                 fontFamily |-> W.h[u].fontFamily] : u \in Range(W.d.nodes)},
     arrows |-> {[id |-> a.id, fromNodeId |-> W.h[a.fromNode].id,
                  toNodeId |-> W.h[a.toNode].id, strokeColor |-> a.strokeColor,
                  strokeWidth |-> a.strokeWidth, lineStyle |-> a.lineStyle] :
                    a \in Range(W.d.arrows)},
     textLabels |-> {[id |-> l.id, position |-> l.position, text |-> l.text,
                      fontSize |-> l.fontSize, width |-> l.width, height |-> l.height,
                      color |-> l.color, fontFamily |-> l.fontFamily,
                      showBorder |-> l.showBorder, borderStyle |-> l.borderStyle,
                      borderColor |-> l.borderColor, borderWidth |-> l.borderWidth,
                      padding |-> l.padding] : l \in Range(W.d.textLabels)},
     whiteboards |-> {[id |-> wb.id, position |-> wb.position, width |-> wb.width,
                       height |-> wb.height, backgroundColor |-> wb.backgroundColor] :
                         wb \in Range(W.d.whiteboards)}]

\* C4: Diagram.fromJSON(S.toJSON()) has the nodes, arrows, labels and
\* whiteboards of S, each with the same id, position, size and style
RoundTripKeepsScene ==
    SceneEntities(Diagram_fromJSON(World, Diagram_toJSON(World))) = SceneEntities(World)

\* After is Before without the node nodeId and without the arrows that
\* leave or reach it; nothing else went or changed, and nodeId is not
\* selected
NodeAndItsArrowsRemoved(Before, After, nodeId) ==
    /\ After.d.nodes = SelectSeq(Before.d.nodes, LAMBDA u : Before.h[u].id # nodeId)
    /\ \A u \in Range(After.d.nodes) : After.h[u] = Before.h[u]
    /\ After.d.arrows =
          SelectSeq(Before.d.arrows, LAMBDA a : /\ Before.h[a.fromNode].id # nodeId
                                                /\ Before.h[a.toNode].id # nodeId)
    /\ After.d.textLabels = Before.d.textLabels
    /\ After.d.whiteboards = Before.d.whiteboards
    /\ nodeId \notin Range(After.d.selectedElementIds)

\* C5: removeNode(id) removes the node and exactly the arrows whose fromNode
\* or toNode it is; every other node, arrow, label and whiteboard stays as
\* it is, and id is no longer selected
CascadeDelete ==
    \A nodeId \in Range(NodeIds(World)) :
        NodeAndItsArrowsRemoved(World, removeNode(World, nodeId), nodeId)

\* removeNode has just taken a node and an arrow from a Scene that keeps
\* another node
ArrowWentWithNode ==
    /\ last.op = "removeNode"
    /\ calls = 1
    /\ Len(diagram.nodes) = nextId.node - 1
    /\ Len(diagram.nodes) >= 1
    /\ Len(diagram.arrows) < nextId.arrow

\* the arrow is selected and so are its two nodes
SelectedWithEnds(W, a) ==
    /\ a.id \in Range(W.d.selectedElementIds)
    /\ W.h[a.fromNode].id \in Range(W.d.selectedElementIds)
    /\ W.h[a.toNode].id \in Range(W.d.selectedElementIds)

\* the arrows After has and Before has not
NewArrows(Before, After) ==
    {b \in Range(After.d.arrows) : b.id \notin Range(IdsOf(Before.d.arrows))}

\* the nodes of the Scene that are selected
SelectedNodes(W) ==
    {u \in Range(W.d.nodes) : W.h[u].id \in Range(W.d.selectedElementIds)}

\* node new is a clone of node old: a node that After has and Before has
\* not, 20 to the right of and 20 below old, with its text and style
IsCloneOf(Before, After, new, old) ==
    /\ new \in Range(After.d.nodes) \ Range(Before.d.nodes)
    /\ After.h[new].position = PointAdd(Before.h[old].position, Pt(20, 20))
    /\ After.h[new].text = Before.h[old].text
    /\ After.h[new].style = Before.h[old].style

\* the ways to give each selected node a clone of its own
CloneMaps(Before, After) ==
    {f \in [SelectedNodes(Before) -> Range(After.d.nodes) \ Range(Before.d.nodes)] :
        /\ \A u \in DOMAIN f : IsCloneOf(Before, After, f[u], u)
        /\ \A u, v \in DOMAIN f : u # v => f[u] # f[v]}

\* arrow b is a copy of arrow a under the clones f: it joins the clones of
\* the nodes of a and has the stroke of a
CopiedBy(f, a, b) ==
    /\ b.fromNode = f[a.fromNode]
    /\ b.toNode = f[a.toNode]
    /\ b.strokeColor = a.strokeColor
    /\ b.strokeWidth = a.strokeWidth
    /\ b.lineStyle = a.lineStyle

\* the new arrows are, one for one, the copies of the arrows that are
\* selected with both their nodes: no other arrow is copied and no new arrow
\* is anything else
ArrowsFollowClones(Before, After) ==
    \E f \in CloneMaps(Before, After) :
        \E g \in [{a \in Range(Before.d.arrows) : SelectedWithEnds(Before, a)}
                     -> NewArrows(Before, After)] :
            /\ \A a, c \in DOMAIN g : a # c => g[a] # g[c]
            /\ \A b \in NewArrows(Before, After) : \E a \in DOMAIN g : g[a] = b
            /\ \A a \in DOMAIN g : CopiedBy(f, a, g[a])

\* C6: duplicateSelected() copies a selected arrow if and only if its two
\* nodes are selected too, and each new arrow joins the clones of the nodes
\* of its original
DuplicateArrowFiltering == ArrowsFollowClones(World, duplicateSelected(World))

\* duplicateSelected has just copied an arrow
ArrowDuplicated ==
    /\ last.op = "duplicateSelected"
    /\ last.made.arrow = 1
    /\ last.made.node = 2

\* the documents a paste is given: the one the host holds and the copy of
\* the current selection
Documents == Range(clipboard) \cup {copySelectedToClipboard(World)}

\* the ids in use before a paste: those of the Scene and those of the data
TakenIds(Before, data) ==
    Range(ElementIds(Before)) \cup Range(IdsOf(data.nodes))
      \cup Range(IdsOf(data.textLabels)) \cup Range(IdsOf(data.arrows))

\* the arrows of the data whose two nodes are in the data
Joined(data) ==
    SelectSeq(data.arrows, LAMBDA a : /\ a.fromNodeId \in Range(IdsOf(data.nodes))
                                      /\ a.toNodeId \in Range(IdsOf(data.nodes)))

\* the place in the data of the node with the id
PlaceOf(data, id) == MinOf({i \in 1..Len(data.nodes) : data.nodes[i].id = id})

\* After has what Before has and then, with new ids, one node for each node
\* of the data and one label for each label, at the position in the data
\* plus the offset, and one arrow for each arrow of the data whose two nodes
\* are in the data, joining the nodes made for them; the new elements are
\* the selection
Pasted(Before, After, data, offset) ==
    LET n == Len(Before.d.nodes)
        t == Len(Before.d.textLabels)
        r == Len(Before.d.arrows)
    IN /\ Len(After.d.nodes) = n + Len(data.nodes)
       /\ SubSeq(After.d.nodes, 1, n) = Before.d.nodes
       /\ \A i \in 1..Len(data.nodes) :
             /\ After.h[After.d.nodes[n + i]].position =
                   PointAdd(data.nodes[i].position, offset)
             /\ After.h[After.d.nodes[n + i]].id \notin TakenIds(Before, data)
             /\ \A j \in 1..Len(data.nodes) :
                   i # j => After.h[After.d.nodes[n + i]].id # After.h[After.d.nodes[n + j]].id
       /\ Len(After.d.textLabels) = t + Len(data.textLabels)
       /\ IdsOf(SubSeq(After.d.textLabels, 1, t)) = IdsOf(Before.d.textLabels)
       /\ \A i \in 1..Len(data.textLabels) :
             /\ After.d.textLabels[t + i].position =
                   PointAdd(data.textLabels[i].position, offset)
             /\ After.d.textLabels[t + i].id \notin TakenIds(Before, data)
       /\ Len(After.d.arrows) = r + Len(Joined(data))
       /\ IdsOf(SubSeq(After.d.arrows, 1, r)) = IdsOf(Before.d.arrows)
       /\ \A i \in 1..Len(Joined(data)) :
             /\ After.d.arrows[r + i].fromNode =
                   After.d.nodes[n + PlaceOf(data, Joined(data)[i].fromNodeId)]
             /\ After.d.arrows[r + i].toNode =
                   After.d.nodes[n + PlaceOf(data, Joined(data)[i].toNodeId)]
             /\ After.d.arrows[r + i].id \notin TakenIds(Before, data)
       /\ Range(After.d.selectedElementIds) =
             {After.h[After.d.nodes[n + i]].id : i \in 1..Len(data.nodes)}
               \cup {After.d.textLabels[t + i].id : i \in 1..Len(data.textLabels)}
               \cup {After.d.arrows[r + i].id : i \in 1..Len(Joined(data))}

\* C7: pasteFromClipboard(data, offset) adds one new node or label, with a
\* new id, at the data position plus the offset for each node and label of
\* the data, adds an arrow between the new nodes for exactly the arrows of
\* the data whose two nodes are in the data, and selects what it added
PasteAddsCopies ==
    \A data \in Documents, offset \in Offsets :
        Pasted(World, pasteFromClipboard(World, data, offset), data, offset)

\* a paste has just made two nodes and the arrow between them
ArrowPasted ==
    /\ last.op = "pasteFromClipboard"
    /\ last.made.node = 2
    /\ last.made.arrow = 1
    /\ Len(clipboard[1].arrows) = 1

(***************************************************************************)
(* Properties of dragging (SpecDrag).                                      *)
(***************************************************************************)
\* the ids of the nodes and labels of the Scene
MovableIds(W) == Range(NodeIds(W)) \cup Range(IdsOf(W.d.textLabels))

\* the position of the node or label with the id
PositionOf(W, id) ==
    IF hasNode(W, id) THEN W.h[getNode(W, id)[1]].position
    ELSE MapGet(W.d.textLabels, id)[1].position

\* the whiteboards whose id is in the selection set
SelectedBoards(W) ==
    {wb \in Range(W.d.whiteboards) : wb.id \in Range(W.d.selectedElementIds)}

\* from Before to After whiteboard wb moved by d, with every node and label
\* that lay in it, and nothing else that is not selected moved
CarriedBy(Before, After, wb, d) ==
    /\ MapGet(After.d.whiteboards, wb.id)[1].position = PointAdd(wb.position, d)
    /\ \A id \in MovableIds(Before) :
          /\ Whiteboard_containsPoint(wb, PositionOf(Before, id)) =>
                PositionOf(After, id) = PointAdd(PositionOf(Before, id), d)
          /\ (/\ ~Whiteboard_containsPoint(wb, PositionOf(Before, id))
              /\ id \notin Range(Before.d.selectedElementIds)) =>
                PositionOf(After, id) = PositionOf(Before, id)

\* C11: while dragging with a whiteboard selected, a pointer-move by d moves
\* the whiteboard by d, moves by d, once, every node and label that lay in
\* the whiteboard before the move, and leaves in place every node and label
\* outside it that is not selected
WhiteboardDragCarriesContents ==
    \A point \in DragPoints :
        im.mode = "dragging" /\ IsSome(im.dragStartPoint) =>
            \A wb \in SelectedBoards(World) :
                CarriedBy(World, handleMouseMove(World, point), wb,
                          PointSubtract(point, im.dragStartPoint[1]))

(***************************************************************************)
(* Properties of the handlers on a Scene of the library (SpecScene).       *)
(***************************************************************************)
\* pointer positions on a Scene of the library: on the first node, on the
\* first label, on the bare whiteboard and off every whiteboard
HandlerPoints == {Pt(100, 0), Pt(100, 200), Pt(0, -300), Pt(0, 900)}

\* no handler of the controller throws on W
NoHandlerThrows(W) ==
    /\ \A point \in HandlerPoints, shiftKey \in BOOLEAN :
          ~handleMouseDown(W, point, shiftKey).threw
    /\ \A point \in HandlerPoints :
          /\ ~handleMouseMove(W, point).threw
          /\ ~handleMouseUp(W, point).threw
          /\ ~handleDoubleClick(W, point).threw
    /\ \A key \in Keys : ~handleKeyDown(W, key).threw

\* C12: handleMouseDown, handleMouseMove, handleMouseUp, handleDoubleClick
\* and handleKeyDown complete without throwing, with every tool, on every
\* Scene, a Scene that Diagram.fromJSON made of a document included
HandlersAreTotal == \A tool \in Tools : NoHandlerThrows(setTool(World, tool))

(***************************************************************************)
(* Properties of the selection.                                            *)
(***************************************************************************)
\* the flag of every node, arrow, label and whiteboard of the Scene says
\* whether its id is in the selection set
FlagsMirrorSelection(W) ==
    /\ \A u \in Range(W.d.nodes) :
          W.h[u].isSelected <=> W.h[u].id \in Range(W.d.selectedElementIds)
    /\ \A a \in Range(W.d.arrows) :
          a.isSelected <=> a.id \in Range(W.d.selectedElementIds)
    /\ \A l \in Range(W.d.textLabels) :
          l.isSelected <=> l.id \in Range(W.d.selectedElementIds)
    /\ \A wb \in Range(W.d.whiteboards) :
          wb.selected <=> wb.id \in Range(W.d.selectedElementIds)

\* C13: in every state the selected flag of each node, arrow, label and
\* whiteboard of the Scene is true if and only if its id is in the selection
\* set of the Scene
SelectionMirror == FlagsMirrorSelection(World)

(***************************************************************************)
(* Properties of the hit test.                                             *)
(***************************************************************************)
HitPoints == {Pt(x, y) : x \in {-60, 0, 45, 55, 100, 120, 160, 195, 240, 300},
                         y \in {0, 8, 12, 55}}

NodesAt(W, P) ==
    {u \in Range(W.d.nodes) :
        Dist2(W.h[u].position, P) <= W.h[u].radius * W.h[u].radius}

LabelsAt(W, P) == {l \in Range(W.d.textLabels) : TextLabel_containsPoint(l, P)}

ArrowsAt(W, P) == {a \in Range(W.d.arrows) : Arrow_containsPoint(W.h, a, P, 10)}

\* the order of the hit test at P: a node that contains P, else a label
\* whose box contains P, else an arrow within 10px of P, else nothing
HitPriority(W, P, r) ==
    IF NodesAt(W, P) # {}
    THEN r \in {Some([type |-> "node", id |-> W.h[u].id]) : u \in NodesAt(W, P)}
    ELSE IF LabelsAt(W, P) # {}
    THEN r \in {Some([type |-> "text", id |-> l.id]) : l \in LabelsAt(W, P)}
    ELSE IF ArrowsAt(W, P) # {}
    THEN r \in {Some([type |-> "arrow", id |-> a.id]) : a \in ArrowsAt(W, P)}
    ELSE r = None

\* C14: at every point findElementAtPoint returns a node when some node
\* contains the point, otherwise a label whose box contains it, otherwise an
\* arrow within 10px of it, otherwise nothing; never a label or an arrow
\* under a node, and at most one element
HitTestPriority ==
    \A P \in HitPoints : HitPriority(World, P, findElementAtPoint(World, P))

\* a node lies over an arrow at a point and the hit test answers the node
NodeHitOverArrow ==
    \E P \in HitPoints :
        /\ NodesAt(World, P) # {}
        /\ ArrowsAt(World, P) # {}
        /\ findElementAtPoint(World, P)[1].type = "node"

(***************************************************************************)
(* Properties of loading a document.                                       *)
(***************************************************************************)
\* the document of the Scene without the nodes whose id is in K, and
\* without its whiteboards when boards is FALSE
Damaged(data, K, boards) ==
    [data EXCEPT !.nodes = SelectSeq(@, LAMBDA n : n.id \notin K),
                 !.whiteboards = IF boards THEN @ ELSE <<>>]

\* both ends of the arrow name a node of the document
Resolves(data, arrowData) ==
    /\ \E i \in 1..Len(data.nodes) : data.nodes[i].id = arrowData.fromNodeId
    /\ \E i \in 1..Len(data.nodes) : data.nodes[i].id = arrowData.toNodeId

BoardFrames(boards) ==
    [i \in 1..Len(boards) |->
        [id |-> boards[i].id, position |-> boards[i].position,
         width |-> boards[i].width, height |-> boards[i].height]]

\* R holds every node, label and whiteboard of the document and the arrows
\* whose ends resolve, and nothing was thrown
LoadedTolerantly(data, R) ==
    /\ ~R.threw
    /\ Diagram_toJSON(R).nodes = data.nodes
    /\ Diagram_toJSON(R).textLabels = data.textLabels
    /\ Diagram_toJSON(R).arrows = SelectSeq(data.arrows, LAMBDA a : Resolves(data, a))
    /\ IF Len(data.whiteboards) > 0
       THEN BoardFrames(R.d.whiteboards) = BoardFrames(data.whiteboards)
       ELSE /\ Len(R.d.whiteboards) = 1
            /\ Frame(R.d.whiteboards[1]) = DefaultFrame

\* the documents of the Scene with at most MaxMissing nodes taken out
DamagedDocuments ==
    {Damaged(Diagram_toJSON(World), K, boards) :
        K \in {X \in SUBSET Range(NodeIds(World)) : Cardinality(X) <= MaxMissing},
        boards \in BOOLEAN}

\* C15: Diagram.fromJSON of a document in which arrows name nodes that the
\* document does not hold throws nothing, skips exactly those arrows and
\* loads every node, label, whiteboard and resolving arrow; a document
\* without whiteboards gives one default whiteboard
TolerantLoad ==
    \A data \in DamagedDocuments : LoadedTolerantly(data, Diagram_fromJSON(World, data))

\* a document in which one arrow resolves and another does not, loaded
ArrowSkippedArrowKept ==
    \E data \in DamagedDocuments :
        /\ \E i, j \in 1..Len(data.arrows) :
              Resolves(data, data.arrows[i]) /\ ~Resolves(data, data.arrows[j])
        /\ Len(Diagram_fromJSON(World, data).d.arrows) \in 1..(Len(data.arrows) - 1)

(***************************************************************************)
(* Properties of the arrows the controller makes.                          *)
(***************************************************************************)
\* C16: no arrow of the Scene, each of them made by an event the controller
\* handled, leaves and reaches the same Node
NoSelfLoops ==
    \A a \in Range(diagram.arrows) : a.fromNode # a.toNode

\* an arrow gesture is under way and the pointer is released over the node
\* it started from: no arrow is added
ReleasedOnStartNode ==
    /\ ArrowGesture(World)
    /\ \E point \in Points :
          /\ findElementAtPoint(World, point)
                = Some([type |-> "node", id |-> heap[im.arrowStartNode[1]].id])
          /\ handleMouseUp(World, point).d.arrows = diagram.arrows

(***************************************************************************)
(* Properties of the edit session (SpecEdit).                              *)
(***************************************************************************)
\* the commit of text on the label id: a blank text takes the label out of
\* the Scene and of the selection, any other text becomes its text; the
\* other labels and the nodes stay
LabelCommitted(Before, After, id, text) ==
    /\ IF text \in BlankTexts
       THEN /\ ~MapHas(After.d.textLabels, id)
            /\ id \notin Range(After.d.selectedElementIds)
            /\ After.d.textLabels = SelectSeq(Before.d.textLabels, LAMBDA l : l.id # id)
       ELSE /\ IdsOf(After.d.textLabels) = IdsOf(Before.d.textLabels)
            /\ \A l \in Range(After.d.textLabels) : l.id = id => l.text = text
    /\ \A l \in Range(After.d.textLabels) : l.id = id => l.text \notin BlankTexts
    /\ After.d.nodes = Before.d.nodes
    /\ After.h = Before.h

\* the commit of text on the node id: the node stays, with that text
NodeCommitted(Before, After, id, text) ==
    /\ After.d.nodes = Before.d.nodes
    /\ \A u \in Range(After.d.nodes) :
          After.h[u] = IF Before.h[u].id = id THEN [Before.h[u] EXCEPT !.text = text]
                       ELSE Before.h[u]
    /\ After.d.textLabels = Before.d.textLabels
    /\ After.d.selectedElementIds = Before.d.selectedElementIds

TextCommitted(Before, After, id, text) ==
    /\ After.m.mode = "idle"
    /\ MapHas(Before.d.textLabels, id) => LabelCommitted(Before, After, id, text)
    /\ hasNode(Before, id) => NodeCommitted(Before, After, id, text)

\* C17: the commit of an edit session through updateElementText removes the
\* edited label from the Scene and from the selection when the text is
\* empty or blank, keeps an edited node whatever the text, and leaves the
\* mode idle; an edited label that stays has text that is not blank
NoEmptyLabelAfterEdit ==
    IsSome(editingElement) =>
        \A text \in Texts :
            TextCommitted(World, updateElementText(World, editingElement[1], text),
                          editingElement[1], text)

\* an edit session on a label of the Scene, selected, whose commit with an
\* empty text removes it
EmptyCommitRemovesLabel ==
    /\ IsSome(editingElement)
    /\ im.mode = "editing_text"
    /\ MapHas(diagram.textLabels, editingElement[1])
    /\ editingElement[1] \in Range(diagram.selectedElementIds)
    /\ ~MapHas(updateElementText(World, editingElement[1], "").d.textLabels,
               editingElement[1])

(***************************************************************************)
(* Properties of duplicateSelected.                                        *)
(***************************************************************************)
SelectedLabels(W) ==
    {l \in Range(W.d.textLabels) : l.id \in Range(W.d.selectedElementIds)}

NewLabels(Before, After) ==
    {l \in Range(After.d.textLabels) : l.id \notin Range(IdsOf(Before.d.textLabels))}

\* every node and label of Before is in After, where it was
OriginalsStay(Before, After) ==
    /\ \A u \in Range(Before.d.nodes) :
          u \in Range(After.d.nodes) /\ After.h[u].position = Before.h[u].position
    /\ \A l \in Range(Before.d.textLabels) :
          \E k \in Range(After.d.textLabels) : k.id = l.id /\ k.position = l.position

\* one clone for each selected node and label, 20 to the right and 20 down,
\* under an id the Scene did not hold
OneCloneEach(Before, After) ==
    /\ CloneMaps(Before, After) # {}
    /\ Cardinality(Range(After.d.nodes) \ Range(Before.d.nodes))
          = Cardinality(SelectedNodes(Before))
    /\ \A u \in Range(After.d.nodes) \ Range(Before.d.nodes) :
          After.h[u].id \notin Range(ElementIds(Before))
    /\ Cardinality(NewLabels(Before, After)) = Cardinality(SelectedLabels(Before))
    /\ \A l \in SelectedLabels(Before) :
          \E k \in NewLabels(Before, After) :
              k.position = PointAdd(l.position, Pt(20, 20)) /\ k.text = l.text
    /\ Len(After.d.nodes) = Len(Before.d.nodes) + Cardinality(SelectedNodes(Before))
    /\ Len(After.d.textLabels)
          = Len(Before.d.textLabels) + Cardinality(SelectedLabels(Before))

\* the ids returned are those of the new nodes, labels and arrows, and they
\* are the selection
NewIdsSelected(Before, After, newIds) ==
    /\ Range(newIds) = {After.h[u].id : u \in Range(After.d.nodes) \ Range(Before.d.nodes)}
                         \cup {l.id : l \in NewLabels(Before, After)}
                         \cup {a.id : a \in NewArrows(Before, After)}
    /\ Range(After.d.selectedElementIds) = Range(newIds)
    /\ Range(newIds) \cap Range(ElementIds(Before)) = {}

\* C18: duplicateSelected() adds one clone with a fresh id, at the position
\* of the original plus (20, 20), for each selected node and each selected
\* label, leaves the originals in the Scene where they were, returns the ids
\* of the new entities, and the selection is then exactly those ids
DuplicateResult ==
    /\ OriginalsStay(World, duplicateSelected(World))
    /\ OneCloneEach(World, duplicateSelected(World))
    /\ NewIdsSelected(World, duplicateSelected(World), duplicateSelectedIds(World))

(***************************************************************************)
(* Properties of the pointer-up.                                           *)
(***************************************************************************)
\* the controller after a pointer-up that arrived in the mode before
Settled(before, After) ==
    /\ before # "editing_text" => After.m.mode = "idle"
    /\ After.m.dragStartPoint = None
    /\ After.m.resizingHandle = None

\* C19: after handleMouseUp, whatever the mode and the tool it arrives in,
\* the mode is idle unless it was editing_text, the drag origin is reset and
\* no resize handle is remembered; the pointer-up that ends an arrow gesture
\* on empty space with a new node is no exception
PointerUpSettles ==
    \A point \in Points : Settled(im.mode, handleMouseUp(World, point))

(***************************************************************************)
(* Properties of the dragging flags.                                       *)
(***************************************************************************)
NothingIsDragging(W) ==
    /\ \A u \in Range(W.d.nodes) : ~W.h[u].isDragging
    /\ \A l \in Range(W.d.textLabels) : ~l.isDragging

\* C20: no node and no label of the Scene has its dragging flag set while
\* the mode is idle, nor after a handleMouseUp, whatever events came before
DraggingFlagsTransient ==
    /\ im.mode = "idle" => NothingIsDragging(World)
    /\ \A point \in Points : NothingIsDragging(handleMouseUp(World, point))

(***************************************************************************)
(* Properties of the Escape key (SpecSelect).                              *)
(***************************************************************************)
\* the modes an Escape cancels
Cancellable == {"creating_arrow", "editing_text", "box_selecting"}

\* level 1: the operation under way is dropped, the mode is idle, and the
\* Scene, the selection and the tool are what they were
OperationCancelled(Before, After) ==
    /\ After.m = [Before.m EXCEPT
                    !.mode = "idle",
                    !.arrowStartNode = IF Before.m.mode = "creating_arrow" THEN None ELSE @,
                    !.selectionBox = IF Before.m.mode = "box_selecting" THEN None ELSE @]
    /\ After.d = Before.d
    /\ After.h = Before.h
    /\ After.req = None

\* W without its selection: the selection set and every selected flag
Unselected(W) ==
    [nodes |-> [i \in 1..Len(W.d.nodes) |-> [W.h[W.d.nodes[i]] EXCEPT !.isSelected = FALSE]],
     arrows |-> [i \in 1..Len(W.d.arrows) |-> [W.d.arrows[i] EXCEPT !.isSelected = FALSE]],
     textLabels |-> [i \in 1..Len(W.d.textLabels) |->
                        [W.d.textLabels[i] EXCEPT !.isSelected = FALSE]],
     whiteboards |-> [i \in 1..Len(W.d.whiteboards) |->
                        [W.d.whiteboards[i] EXCEPT !.selected = FALSE]]]

\* level 2: the selection set is empty, no node, arrow or label carries the
\* selected flag, nothing else of the Scene changed, and the controller and
\* the tool are what they were
SelectionCleared(Before, After) ==
    /\ After.d.selectedElementIds = <<>>
    /\ \A u \in Range(After.d.nodes) : ~After.h[u].isSelected
    /\ \A a \in Range(After.d.arrows) : ~a.isSelected
    /\ \A l \in Range(After.d.textLabels) : ~l.isSelected
    /\ Unselected(After) = Unselected(Before)
    /\ After.m = Before.m
    /\ After.req = None

\* level 3: the Select tool is requested and nothing changed
SelectRequested(Before, After) ==
    /\ After.req = Some("select")
    /\ [After EXCEPT !.req = None] = Before

\* one Escape on Before gave After: the first level that applies, alone
EscapeLevel(Before, After) ==
    IF Before.m.mode \in Cancellable THEN OperationCancelled(Before, After)
    ELSE IF Before.d.selectedElementIds # <<>> THEN SelectionCleared(Before, After)
    ELSE IF Before.m.currentTool # "select" THEN SelectRequested(Before, After)
    ELSE After = Before

\* C21: one Escape key-down does exactly one thing: in creating_arrow,
\* editing_text or box_selecting it cancels the operation and leaves the
\* mode idle, the selection and the tool as they were; otherwise, with a
\* selection, it clears the selection and leaves the tool; otherwise, with
\* a tool other than Select, it requests Select; otherwise nothing changes
EscapeCascade == EscapeLevel(World, handleKeyDown(World, "Escape"))

\* a state in which two levels could apply: an arrow gesture under way, a
\* node selected, the Arrow tool on; Escape cancels the gesture only
EscapeCancelsGestureOnly ==
    /\ im.mode = "creating_arrow"
    /\ diagram.selectedElementIds # <<>>
    /\ im.currentTool = "arrow"
    /\ handleKeyDown(World, "Escape").m.mode = "idle"
    /\ handleKeyDown(World, "Escape").d.selectedElementIds = diagram.selectedElementIds
    /\ handleKeyDown(World, "Escape").req = None

(***************************************************************************)
(* Properties of the click of the Select tool (SpecSelect).                *)
(***************************************************************************)
\* the pointer positions of clicks and of the moves that follow them
ClickPoints == SelectPoints \cup {Pt(20, 0), Pt(260, 0)}

\* a pointer-down of the Select tool at point reaches the hit test: no
\* resize handle of the selected whiteboard lies under it
PastHandles(W, point) ==
    /\ W.m.currentTool = "select"
    /\ ~getSelectedWhiteboard_throws(W)
    /\ \/ ~IsSome(getSelectedWhiteboard(W))
       \/ ~IsSome(Whiteboard_getResizeHandleAtPoint(getSelectedWhiteboard(W)[1], point,
                                                    ResizeHandleSize))

\* the selected nodes and labels of W
SelectedMovables(W) == MovableIds(W) \cap Range(W.d.selectedElementIds)

\* from Down to After every selected node and label moved by d
GroupMovedBy(Down, After, d) ==
    \A id \in SelectedMovables(Down) :
        PositionOf(After, id) = PointAdd(PositionOf(Down, id), d)

\* a pointer-down without Shift at point, on the element hit there
PlainClick(W, point, hit) ==
    LET Down == handleMouseDown(W, point, FALSE)
    IN /\ IF hit.id \in Range(W.d.selectedElementIds)
          THEN Down.d.selectedElementIds = W.d.selectedElementIds
          ELSE Down.d.selectedElementIds = <<hit.id>>
       /\ hit.type \in {"node", "text"} =>
             \A q \in ClickPoints :
                 GroupMovedBy(Down, handleMouseMove(Down, q), PointSubtract(q, point))

\* C22: a pointer-down of the Select tool without Shift on an element that
\* is selected leaves the selection set as it was, and the move that
\* follows takes every selected node and label along by the same delta; on
\* an element that is not selected the selection becomes that element alone
PlainClickKeepsGroup ==
    \A point \in ClickPoints :
        (PastHandles(World, point) /\ IsSome(findElementAtPoint(World, point))) =>
            PlainClick(World, point, findElementAtPoint(World, point)[1])

\* the selected flag and the membership in the selection set of every node,
\* arrow and label of W but the one with the id
OthersSelection(W, id) ==
    [nodes |-> {<<W.h[u].id, W.h[u].isSelected>> : u \in Range(W.d.nodes)} \ ({id} \X BOOLEAN),
     arrows |-> {<<a.id, a.isSelected>> : a \in Range(W.d.arrows)} \ ({id} \X BOOLEAN),
     textLabels |-> {<<l.id, l.isSelected>> : l \in Range(W.d.textLabels)} \ ({id} \X BOOLEAN),
     set |-> (Range(W.d.selectedElementIds)
                \cap (MovableIds(W) \cup Range(IdsOf(W.d.arrows)))) \ {id}]

\* a pointer-down with Shift at point, on the element hit there
ShiftClick(W, point, hit) ==
    LET Down == handleMouseDown(W, point, TRUE)
    IN /\ hit.id \in Range(Down.d.selectedElementIds)
            <=> hit.id \notin Range(W.d.selectedElementIds)
       /\ OthersSelection(Down, hit.id) = OthersSelection(W, hit.id)

\* C23: a pointer-down of the Select tool with Shift on an element adds it
\* to the selection when it was not selected and takes it out when it was;
\* the selection state of every other node, arrow and label is unchanged
ShiftClickToggles ==
    \A point \in ClickPoints :
        (PastHandles(World, point) /\ IsSome(findElementAtPoint(World, point))) =>
            ShiftClick(World, point, findElementAtPoint(World, point)[1])

\* no whiteboard of W is selected, by its flag or by the selection set
NoWhiteboardSelected(W) ==
    /\ \A wb \in Range(W.d.whiteboards) : ~wb.selected
    /\ Range(W.d.selectedElementIds) \cap Range(IdsOf(W.d.whiteboards)) = {}

\* the pointer-down at point left no whiteboard selected, and no move that
\* follows it moves a whiteboard
WhiteboardsLetGo(Down) ==
    /\ NoWhiteboardSelected(Down)
    /\ \A q \in ClickPoints :
          BoardFrames(handleMouseMove(Down, q).d.whiteboards)
              = BoardFrames(Down.d.whiteboards)

\* C24: after a pointer-down of the Select tool that hits a node, a label or
\* an arrow, with or without Shift, no whiteboard is selected (no flag set,
\* no whiteboard id in the selection set), and the pointer-moves that
\* follow move no whiteboard
ElementHitDeselectsWhiteboards ==
    \A point \in ClickPoints, shiftKey \in BOOLEAN :
        (PastHandles(World, point) /\ IsSome(findElementAtPoint(World, point))) =>
            WhiteboardsLetGo(handleMouseDown(World, point, shiftKey))

\* the places of the whiteboards of W that contain the point
BoardsAt(W, point) ==
    {i \in 1..Len(W.d.whiteboards) : Whiteboard_containsPoint(W.d.whiteboards[i], point)}

\* the elements (not whiteboards) in the selection set of W
SelectedElements(W) ==
    Range(W.d.selectedElementIds) \cap (MovableIds(W) \cup Range(IdsOf(W.d.arrows)))

\* a pointer-down of the Select tool at point, on no element: over a
\* whiteboard the topmost one becomes the selection and is dragged; off
\* every whiteboard a selection box starts at the point, no whiteboard is
\* selected, and the selected elements stay selected exactly with Shift
EmptySpaceClick(W, point, shiftKey) ==
    LET Down == handleMouseDown(W, point, shiftKey)
    IN IF BoardsAt(W, point) # {}
       THEN /\ \A j \in BoardsAt(W, point) :
                  (\A i \in BoardsAt(W, point) : i <= j) =>
                      Down.d.selectedElementIds = <<W.d.whiteboards[j].id>>
            /\ Down.m.mode = "dragging"
       ELSE /\ Down.m.mode = "box_selecting"
            /\ Down.m.selectionBox = Some(newSelectionBox(point))
            /\ NoWhiteboardSelected(Down)
            /\ SelectedElements(Down) = IF shiftKey THEN SelectedElements(W) ELSE {}

\* C25: a pointer-down of the Select tool on empty space selects the last
\* inserted whiteboard that contains the point, alone, and enters dragging;
\* off every whiteboard it enters box_selecting with a new box at the
\* point, leaves no whiteboard selected by flag or by selection set, and
\* keeps the selected elements if and only if Shift is held
EmptySpacePointerDown ==
    \A point \in ClickPoints, shiftKey \in BOOLEAN :
        (PastHandles(World, point) /\ ~IsSome(findElementAtPoint(World, point))) =>
            EmptySpaceClick(World, point, shiftKey)

(***************************************************************************)
(* Properties of resizing a whiteboard (SpecResize).                       *)
(***************************************************************************)
CornerHandles == {"top-left", "top-right", "bottom-right", "bottom-left"}

EdgeHandles == {"top", "right", "bottom", "left"}

\* twice the position of a handle of the whiteboard
HandlePosition2(wb, handle) ==
    LET cx == IF handle \in {"top-left", "left", "bottom-left"} THEN 2 * wb.position.x
              ELSE IF handle \in {"top", "bottom"} THEN 2 * wb.position.x + wb.width
              ELSE 2 * wb.position.x + 2 * wb.width
        cy == IF handle \in {"top-left", "top", "top-right"} THEN 2 * wb.position.y
              ELSE IF handle \in {"left", "right"} THEN 2 * wb.position.y + wb.height
              ELSE 2 * wb.position.y + 2 * wb.height
    IN Pt(cx, cy)

\* the handles of the whiteboard within 6px of the point on each axis
HandlesNear(wb, point) ==
    {handle \in CornerHandles \cup EdgeHandles :
        /\ Abs(2 * point.x - HandlePosition2(wb, handle).x) <= 12
        /\ Abs(2 * point.y - HandlePosition2(wb, handle).y) <= 12}

\* the whiteboards that carry the selected flag
FlaggedBoards(W) == {wb \in Range(W.d.whiteboards) : wb.selected}

\* pointer positions on, at the rim of and just off the handles of the
\* default whiteboard, and on the whiteboard away from them
HandleProbes ==
    {Pt(800, 0), Pt(806, 6), Pt(794, -6), Pt(807, 0), Pt(800, 7), Pt(800, 600),
     Pt(794, 594), Pt(793, 600), Pt(-800, -600), Pt(0, -600), Pt(0, 600), Pt(-800, 0),
     Pt(-400, 0), Pt(-394, 0), Pt(-500, 0), Pt(0, 0)}

\* a pointer-down of the Select tool at point: near a handle of the selected
\* whiteboard the resize starts with that handle, a corner before an edge,
\* and nothing of the Scene changes; otherwise this pointer-down starts no
\* resize (a pointer-down on an arrow leaves the mode it finds)
HandleFirst(W, point) ==
    LET Down == handleMouseDown(W, point, FALSE)
        near == UNION {HandlesNear(wb, point) : wb \in FlaggedBoards(W)}
    IN IF near # {}
       THEN /\ Down.m.mode = "resizing_whiteboard"
            /\ IsSome(Down.m.resizingHandle)
            /\ Down.m.resizingHandle[1] \in near
            /\ near \cap CornerHandles # {} => Down.m.resizingHandle[1] \in CornerHandles
            /\ Down.d = W.d
            /\ Down.h = W.h
       ELSE /\ Down.m.mode = "resizing_whiteboard" => W.m.mode = "resizing_whiteboard"
            /\ Down.m.resizingHandle = W.m.resizingHandle

\* C26: a pointer-down of the Select tool within 6px on each axis of one of
\* the eight handles of the selected whiteboard enters resizing_whiteboard
\* with that handle remembered and changes no selection and no dragging
\* flag, whatever element lies under the pointer; a corner handle wins over
\* an edge handle; the handles of a whiteboard that is not selected are
\* never hit
ResizeHandlePriority ==
    \A point \in HandleProbes, shiftKey \in BOOLEAN :
        im.currentTool = "select" =>
            /\ HandleFirst(World, point)
            /\ handleMouseDown(World, point, shiftKey).m.resizingHandle
                  = handleMouseDown(World, point, FALSE).m.resizingHandle

\* the whiteboard is selected, a node lies under its right handle, and the
\* pointer-down there starts the resize and leaves the node alone
HandleHitOverNode ==
    /\ im.currentTool = "select"
    /\ FlaggedBoards(World) # {}
    /\ findElementAtPoint(World, Pt(800, 0)) # None
    /\ handleMouseDown(World, Pt(800, 0), FALSE).m.resizingHandle = Some("right")
    /\ handleMouseDown(World, Pt(800, 0), FALSE).d = diagram

\* the four edges of a whiteboard
Edges(wb) ==
    [left |-> wb.position.x, right |-> wb.position.x + wb.width,
     top |-> wb.position.y, bottom |-> wb.position.y + wb.height]

\* the whiteboard after a resize by the handle: it is not smaller than the
\* minimum and every edge opposite to the handle is where it was
Anchored(before, after, handle) ==
    /\ after.width >= 400
    /\ after.height >= 300
    /\ handle \in {"top-left", "left", "bottom-left"} =>
          Edges(after).right = Edges(before).right
    /\ handle \in {"top-right", "right", "bottom-right"} =>
          Edges(after).left = Edges(before).left
    /\ handle \in {"top-left", "top", "top-right"} =>
          Edges(after).bottom = Edges(before).bottom
    /\ handle \in {"bottom-left", "bottom", "bottom-right"} =>
          Edges(after).top = Edges(before).top

\* the moves of one resize step along each axis: none, small, past the
\* minimum size and past the opposite edge, in both directions
ResizeDeltas == {Pt(dx, dy) : dx \in {-2000, -1300, -1, 0, 1, 1300, 2000},
                              dy \in {-1500, -950, 0, 1, 950, 1500}}

\* the selected whiteboard of W, or none
FlaggedBoard(W) == IF FlaggedBoards(W) = {} THEN None ELSE getSelectedWhiteboard(W)

\* C29: after Whiteboard.resize(handle, delta), for every handle and every
\* delta, the width is at least 400, the height at least 300, and each edge
\* opposite to the dragged handle is where it was, also when the minimum
\* applies; the same holds for each pointer-move of a resize gesture
ResizeClamp ==
    /\ \A wb \in Range(diagram.whiteboards) :
          \A handle \in CornerHandles \cup EdgeHandles, delta \in ResizeDeltas :
              Anchored(wb, Whiteboard_resize(wb, handle, delta), handle)
    /\ (im.mode = "resizing_whiteboard" /\ IsSome(im.resizingHandle)
          /\ IsSome(FlaggedBoard(World))) =>
          \A point \in HandleProbes :
              /\ IsSome(FlaggedBoard(handleMouseMove(World, point)))
              /\ Anchored(FlaggedBoard(World)[1],
                          FlaggedBoard(handleMouseMove(World, point))[1],
                          im.resizingHandle[1])

\* a resize by the top left handle is under way and the next pointer-move
\* takes the pointer past the right edge: the width stops at the minimum
\* and the right edge stays
ClampedFromTheLeft ==
    /\ im.mode = "resizing_whiteboard"
    /\ im.resizingHandle = Some("top-left")
    /\ IsSome(FlaggedBoard(World))
    /\ LET after == FlaggedBoard(handleMouseMove(World, Pt(800, 0)))[1]
       IN /\ after.width = 400
          /\ Edges(after).right = Edges(FlaggedBoard(World)[1]).right
          /\ after.position # FlaggedBoard(World)[1].position

(***************************************************************************)
(* Properties of the Node tool.                                            *)
(***************************************************************************)
\* from Before to Down one node was added, at the point, with the text
\* 'New Node' and an id of its own; the nodes, arrows and labels that were
\* there stay, and the new node is the whole selection
OneNodeAdded(Before, Down, point) ==
    /\ Len(Down.d.nodes) = Len(Before.d.nodes) + 1
    /\ Range(Before.d.nodes) \subseteq Range(Down.d.nodes)
    /\ \A u \in Range(Down.d.nodes) \ Range(Before.d.nodes) :
          /\ Down.h[u].position = point
          /\ Down.h[u].text = "New Node"
          /\ Down.h[u].id \notin Range(ElementIds(Before))
          /\ Down.d.selectedElementIds = <<Down.h[u].id>>
    /\ Cardinality(Range(Down.d.nodes) \ Range(Before.d.nodes)) = 1
    /\ IdsOf(Down.d.arrows) = IdsOf(Before.d.arrows)
    /\ IdsOf(Down.d.textLabels) = IdsOf(Before.d.textLabels)

\* once the host has switched to the Arrow tool, a pointer-down at the
\* point starts an arrow gesture from a node that lies there
GestureStartsThere(Down, point) ==
    LET Again == handleMouseDown(HostApply(Down), point, FALSE)
    IN /\ HostApply(Down).m.currentTool = "arrow"
       /\ Again.m.mode = "creating_arrow"
       /\ IsSome(Again.m.arrowStartNode)
       /\ Node_containsPoint(Again.h[Again.m.arrowStartNode[1]], point)
       /\ Again.d = Down.d

NodeToolClick(W, point, shiftKey) ==
    LET Down == handleMouseDown(W, point, shiftKey)
    IN /\ OneNodeAdded(W, Down, point)
       /\ Down.m.mode \notin {"dragging", "creating_arrow"}
       /\ Down.req = Some("arrow")
       /\ GestureStartsThere(Down, point)

\* C27: a pointer-down of the Node tool at a point, whatever lies under it,
\* adds exactly one node there with the text 'New Node', makes it the whole
\* selection, adds no arrow, enters neither dragging nor creating_arrow and
\* requests the Arrow tool; after the host applied the request the next
\* pointer-down there starts an arrow gesture
NodeToolAddsOneNode ==
    \A point \in Points, shiftKey \in BOOLEAN :
        (im.currentTool = "node" /\ editingElement = None) =>
            NodeToolClick(World, point, shiftKey)

(***************************************************************************)
(* Properties of the Delete key (SpecSelect).                              *)
(***************************************************************************)
\* the Node objects of W whose id is selected
SelectedNodeObjects(W) ==
    {u \in Range(W.d.nodes) : W.h[u].id \in Range(W.d.selectedElementIds)}

\* the whiteboards of Before after the selected ones were removed: those
\* that are not selected stay as they are, a selected one stays only as the
\* last whiteboard of the Scene
WhiteboardsDeleted(Before, After) ==
    /\ Len(After.d.whiteboards) >= 1
    /\ \A wb \in Range(After.d.whiteboards) : wb \in Range(Before.d.whiteboards)
    /\ \A wb \in Range(Before.d.whiteboards) :
          wb.id \notin Range(Before.d.selectedElementIds) =>
              wb \in Range(After.d.whiteboards)
    /\ \A wb \in Range(After.d.whiteboards) :
          wb.id \in Range(Before.d.selectedElementIds) => Len(After.d.whiteboards) = 1

\* every selected node, arrow and label is gone, with the arrows incident
\* to a selected node; what is left is as it was, and nothing is selected
SelectionDeleted(Before, After) ==
    /\ After.d.nodes = SelectSeq(Before.d.nodes,
                                 LAMBDA u : u \notin SelectedNodeObjects(Before))
    /\ \A u \in Range(After.d.nodes) : After.h[u] = Before.h[u]
    /\ After.d.arrows =
          SelectSeq(Before.d.arrows,
                    LAMBDA a : /\ a.id \notin Range(Before.d.selectedElementIds)
                               /\ Before.h[a.fromNode].id
                                     \notin Range(Before.d.selectedElementIds)
                               /\ Before.h[a.toNode].id
                                     \notin Range(Before.d.selectedElementIds))
    /\ After.d.textLabels =
          SelectSeq(Before.d.textLabels,
                    LAMBDA l : l.id \notin Range(Before.d.selectedElementIds))
    /\ WhiteboardsDeleted(Before, After)
    /\ After.d.selectedElementIds = <<>>

DeleteKey(W, key) ==
    IF W.m.mode = "editing_text"
    THEN /\ handleKeyDown(W, key).d = W.d
         /\ handleKeyDown(W, key).h = W.h
    ELSE SelectionDeleted(W, handleKeyDown(W, key))

\* C28: a Delete or Backspace key-down while the mode is not editing_text
\* removes every selected node with its incident arrows, every selected
\* arrow and label and every selected whiteboard but the last whiteboard of
\* the Scene, leaves everything else as it was and the selection set empty;
\* in editing_text it changes nothing in the Scene
DeleteKeyRemovesSelection ==
    \A key \in {"Delete", "Backspace"} : DeleteKey(World, key)

\* a node with an arrow is selected, outside an edit session, and Delete
\* removes both
DeleteTakesNodeAndArrow ==
    /\ im.mode # "editing_text"
    /\ \E u \in SelectedNodeObjects(World) :
          \E a \in Range(diagram.arrows) : a.fromNode = u \/ a.toNode = u
    /\ Len(handleKeyDown(World, "Delete").d.arrows) < Len(diagram.arrows)
    /\ Len(handleKeyDown(World, "Delete").d.nodes) < Len(diagram.nodes)

(***************************************************************************)
(* Properties of the double click (SpecSelect).                            *)
(***************************************************************************)
\* the text of the node or label with the id
TextOf(W, id) ==
    IF hasNode(W, id) THEN W.h[getNode(W, id)[1]].text
    ELSE MapGet(W.d.textLabels, id)[1].text

\* the dragging flag of the node or label with the id
DraggingOf(W, id) ==
    IF hasNode(W, id) THEN W.h[getNode(W, id)[1]].isDragging
    ELSE MapGet(W.d.textLabels, id)[1].isDragging

\* a double click on the node or label hit: an edit session is requested
\* for it with its text, the mode is editing_text, and the element recorded
\* as dragged is let go
EditRequested(Before, After, hit) ==
    /\ After.m.mode = "editing_text"
    /\ After.edit = Some(hit.id)
    /\ After.asked = Some(TextOf(Before, hit.id))
    /\ After.m.draggedElementId = None
    /\ \A id \in Range(Before.m.draggedElementId) \cap MovableIds(Before) :
          ~DraggingOf(After, id)
    /\ After.req = None

\* a double click on empty space: with the Arrow tool the Select tool is
\* requested, and nothing else changes
NothingButSelect(Before, After) ==
    /\ After.req = IF Before.m.currentTool = "arrow" THEN Some("select") ELSE None
    /\ [After EXCEPT !.req = None] = Before

DoubleClickAt(W, point) ==
    LET hit == findElementAtPoint(W, point)
        After == handleDoubleClick(W, point)
    IN /\ (IsSome(hit) /\ hit[1].type \in {"node", "text"}) =>
             /\ EditRequested(W, After, hit[1])
             /\ \A q \in ClickPoints : handleMouseUp(After, q).m.mode = "editing_text"
       /\ ~IsSome(hit) => NothingButSelect(W, After)

\* C30: handleDoubleClick on a node or a label sets the mode to
\* editing_text, requests an edit session for it with its current text and
\* clears the dragging flag of the element recorded as dragged; a
\* pointer-up that arrives in editing_text leaves the mode; on empty space
\* it changes nothing but requests the Select tool when the tool is Arrow
DoubleClickEdits ==
    /\ \A point \in ClickPoints : DoubleClickAt(World, point)
    /\ im.mode = "editing_text" =>
          \A q \in ClickPoints : handleMouseUp(World, q).m.mode = "editing_text"

\* the pointer went down on a label, which carries the dragging flag, and
\* the double click on it lets it go and asks for an edit session
DoubleClickLetsGo ==
    \E l \in Range(diagram.textLabels) :
        /\ l.isDragging
        /\ im.draggedElementId = Some(l.id)
        /\ findElementAtPoint(World, l.position) = Some([type |-> "text", id |-> l.id])
        /\ handleDoubleClick(World, l.position).edit = Some(l.id)
        /\ ~DraggingOf(handleDoubleClick(World, l.position), l.id)

(***************************************************************************)
(* Properties of the selection box held by the InteractionManager          *)
(* (SpecBox).                                                              *)
(***************************************************************************)
\* C31: getSelectionBox() is non-null only while the mode is box_selecting;
\* after a pointer-up, an Escape or a setTool that ends or interrupts a
\* box-select gesture no SelectionBox remains
SelectionBoxLifetime ==
    IsSome(im.selectionBox) => im.mode = "box_selecting"

(***************************************************************************)
(* Properties of the ids of new entities (SpecLoaded).                     *)
(***************************************************************************)
\* no two entities of one type carry the same id
DistinctIds(W) ==
    /\ Cardinality(Range(NodeIds(W))) = Len(W.d.nodes)
    /\ Cardinality(Range(IdsOf(W.d.arrows))) = Len(W.d.arrows)
    /\ Cardinality(Range(IdsOf(W.d.textLabels))) = Len(W.d.textLabels)
    /\ Cardinality(Range(IdsOf(W.d.whiteboards))) = Len(W.d.whiteboards)

\* every node, arrow and label the call constructed is in the Scene under
\* an id the Scene did not hold, and every entity that was there still is
StoredFresh(Before, After) ==
    /\ DistinctIds(After)
    /\ Len(After.d.nodes) = Len(Before.d.nodes) + (After.n.node - Before.n.node)
    /\ Len(After.d.arrows) = Len(Before.d.arrows) + (After.n.arrow - Before.n.arrow)
    /\ Len(After.d.textLabels) = Len(Before.d.textLabels) + (After.n.text - Before.n.text)
    /\ Range(Before.d.nodes) \subseteq Range(After.d.nodes)
    /\ \A a \in Range(Before.d.arrows) : \E b \in Range(After.d.arrows) :
          b.id = a.id /\ b.fromNode = a.fromNode /\ b.toNode = a.toNode
    /\ \A l \in Range(Before.d.textLabels) : \E k \in Range(After.d.textLabels) :
          k.id = l.id /\ k.position = l.position /\ k.text = l.text

\* C32: the entities of one type have pairwise distinct ids, and an entity
\* made by the Node tool, the Text tool, an arrow drop, duplicateSelected or
\* pasteFromClipboard gets an id no entity of the Scene has, also in a
\* Scene that Diagram.fromJSON produced with the ids of the document, so
\* adding it replaces nothing
IdFreshness ==
    /\ DistinctIds(World)
    /\ editingElement = None =>
          \A point \in Points :
             /\ StoredFresh(World, handleMouseDown(setTool(World, "node"), point, FALSE))
             /\ StoredFresh(World, handleMouseDown(setTool(World, "text"), point, FALSE))
    /\ im.mode = "creating_arrow" =>
          \A point \in Points : StoredFresh(World, handleMouseUp(World, point))
    /\ StoredFresh(World, duplicateSelected(World))
    /\ IsSome(clipboard) =>
          StoredFresh(World, pasteFromClipboard(World, clipboard[1], DefaultPasteOffset))

(***************************************************************************)
(* Properties of a paste that fails (SpecPaste).                           *)
(***************************************************************************)
\* the paste returned [] because the text did not parse or an entry of it
\* could not be read
PasteFailed(text) == ~Intact(text)

\* C33: pasteFromClipboard never throws, and when it returns an empty list
\* because the text cannot be parsed or holds a malformed entry, the nodes,
\* arrows, labels, whiteboards and the selection of the Scene are as
\* before the call: nothing is pasted in part
PasteFailureContained ==
    IsSome(clipboard) =>
        \A offset \in Offsets :
            LET r == pasteFromClipboardText(World, clipboard[1], offset)
            IN /\ ~r.W.threw
               /\ PasteFailed(clipboard[1]) =>
                     /\ r.newIds = <<>>
                     /\ r.W.d = diagram
                     /\ r.W.h = heap

(***************************************************************************)
(* Properties of copy followed by paste (SpecScene).                       *)
(***************************************************************************)
\* a serialized entity without the fields named
Without(json, names) == [name \in DOMAIN json \ names |-> json[name]]

\* the selected ids that satisfy the test, in selection order
SelectedThat(W, Test(_)) == SelectSeq(W.d.selectedElementIds, Test)

\* the selected arrows whose two nodes are selected as well
ArrowsWithin(W) ==
    LET within(id) ==
            /\ MapHas(W.d.arrows, id)
            /\ W.h[MapGet(W.d.arrows, id)[1].fromNode].id \in Range(W.d.selectedElementIds)
            /\ W.h[MapGet(W.d.arrows, id)[1].toNode].id \in Range(W.d.selectedElementIds)
    IN SelectedThat(W, within)

\* pasteFromClipboard(copySelectedToClipboard()): one new entity for each
\* selected node, each selected label and each selected arrow between
\* selected nodes, equal to its original in the serialized fields other
\* than id and position (and, for an arrow, the ids of its nodes)
PasteEqualsCopy(W, offset) ==
    LET data == copySelectedToClipboard(W)
        After == pasteFromClipboard(W, data, offset)
        ids == pasteFromClipboardIds(W, data, offset)
        isNode(id) == hasNode(W, id)
        isLabel(id) == MapHas(W.d.textLabels, id)
        isArrow(id) == MapHas(W.d.arrows, id)
        nodes == SelectedThat(W, isNode)
        labels == SelectedThat(W, isLabel)
        arrows == ArrowsWithin(W)
    IN /\ Len(ids) = Len(nodes) + Len(labels) + Len(arrows)
       /\ Len(After.d.nodes) = Len(W.d.nodes) + Len(nodes)
       /\ Len(After.d.textLabels) = Len(W.d.textLabels) + Len(labels)
       /\ Len(After.d.arrows) = Len(W.d.arrows) + Len(arrows)
       /\ IdsOf(data.arrows) = SelectedThat(W, isArrow)
       /\ \A i \in 1..Len(nodes) :
             /\ ids[i] \notin Range(ElementIds(W))
             /\ hasNode(After, ids[i])
             /\ Without(Node_toJSON(After.h[getNode(After, ids[i])[1]]), {"id", "position"})
                  = Without(Node_toJSON(W.h[getNode(W, nodes[i])[1]]), {"id", "position"})
       /\ \A i \in 1..Len(labels) :
             LET id == ids[Len(nodes) + i]
             IN /\ id \notin Range(ElementIds(W))
                /\ MapHas(After.d.textLabels, id)
                /\ Without(TextLabel_toJSON(MapGet(After.d.textLabels, id)[1]),
                           {"id", "position"})
                     = Without(TextLabel_toJSON(MapGet(W.d.textLabels, labels[i])[1]),
                               {"id", "position"})
       /\ \A i \in 1..Len(arrows) :
             LET id == ids[Len(nodes) + Len(labels) + i]
             IN /\ id \notin Range(ElementIds(W))
                /\ MapHas(After.d.arrows, id)
                /\ Without(Arrow_toJSON(After.h, MapGet(After.d.arrows, id)[1]),
                           {"id", "fromNodeId", "toNodeId"})
                     = Without(Arrow_toJSON(W.h, MapGet(W.d.arrows, arrows[i])[1]),
                               {"id", "fromNodeId", "toNodeId"})

\* C34: copy then paste makes, for each selected node, label and arrow
\* between selected nodes, one new entity equal to the original in every
\* serialized field other than id and position, the lineStyle of an arrow
\* and the border fields of a label included; a selected arrow with an
\* unselected node is in the payload and is not pasted
CopyPastePreservesAttributes ==
    \A offset \in Offsets : PasteEqualsCopy(World, offset)

(***************************************************************************)
(* Properties of duplicateWhiteboard (SpecScene).                          *)
(***************************************************************************)
\* whiteboard ids asked for: those of the Scene and one it does not hold
AskedWhiteboards(W) ==
    Range(IdsOf(W.d.whiteboards)) \cup {WhiteboardIdOf(W.n.whiteboard + 1)}

\* the duplicate of the original: the last whiteboard, with a new id, the
\* size and colour of the original, to its right, selected
IsDuplicateOf(Before, After, o) ==
    LET d == After.d.whiteboards[Len(After.d.whiteboards)]
    IN /\ Len(After.d.whiteboards) = Len(Before.d.whiteboards) + 1
       /\ d.id \notin Range(ElementIds(Before))
       /\ d.width = o.width
       /\ d.height = o.height
       /\ d.backgroundColor = o.backgroundColor
       /\ d.position = Pt(o.position.x + o.width + 50, o.position.y)
       /\ d.selected
       /\ d.id \in Range(After.d.selectedElementIds)
       /\ o.id \notin Range(After.d.selectedElementIds)
       /\ \A i \in 1..Len(Before.d.whiteboards) :
             After.d.whiteboards[i] =
                IF Before.d.whiteboards[i].id = o.id
                THEN [Before.d.whiteboards[i] EXCEPT !.selected = FALSE]
                ELSE Before.d.whiteboards[i]
       /\ Range(After.d.selectedElementIds) \ {d.id}
             = Range(Before.d.selectedElementIds) \ {o.id}
       /\ Before.d.selectedElementIds = <<o.id>> => After.d.selectedElementIds = <<d.id>>

\* no node, label or arrow is made, moved or deleted
ContentsUntouched(Before, After) ==
    /\ After.h = Before.h
    /\ After.d.nodes = Before.d.nodes
    /\ After.d.arrows = Before.d.arrows
    /\ After.d.textLabels = Before.d.textLabels
    /\ After.n.node = Before.n.node
    /\ After.n.arrow = Before.n.arrow
    /\ After.n.text = Before.n.text

Young(trail, t) == SelectSeq(trail, LAMBDA tp : t - tp.timestamp < LaserMaxAge)

\* s is the beginning of t
StartsWith(t, s) == Len(s) <= Len(t) /\ SubSeq(t, 1, Len(s)) = s

\* a Laser pointer-down: the trail is the point alone, the mode laser_active
LaserDown(W, point) ==
    LET Down == handleMouseDown(W, point, FALSE)
    IN /\ Down.m.laserTrail = <<[point |-> point, timestamp |-> W.now]>>
       /\ Down.m.mode = "laser_active"

\* a pointer-up in laser_active: the mode is idle and the trail as it was
LaserUp(W, point) ==
    LET Up == handleMouseUp(W, point)
    IN Up.m.mode = "idle" /\ Up.m.laserTrail = W.m.laserTrail

\* the call loses no point of the trail that is younger than maxAge
KeepsYoung(Before, After) ==
    StartsWith(Young(After.m.laserTrail, Before.now),
               Young(Before.m.laserTrail, Before.now))

\* the calls other than a Laser pointer-down and setTool
OtherCalls(W) ==
    {handleMouseMove(W, point) : point \in ViewPoints}
      \cup {handlePanningWithScreenCoords(W, screenPoint) : screenPoint \in ScreenPoints}
      \cup {handleMouseUp(W, point) : point \in ViewPoints}
      \cup {handleDoubleClick(W, point) : point \in ViewPoints}
      \cup {handleKeyDown(W, key) : key \in Keys}
      \cup {applyWheelPan(W, delta.x, delta.y) : delta \in WheelDeltas}
      \cup {Frame_cleanup(W)}
      \cup (IF W.m.currentTool # "laser"
            THEN {handleMouseDown(W, point, FALSE) : point \in ViewPoints} ELSE {})

\* C36: a Laser pointer-down empties the trail, appends the point and
\* enters laser_active; a pointer-up in laser_active returns to idle and
\* removes no point; the trail is emptied only by a later Laser
\* pointer-down or by setTool from Laser to another tool, and otherwise
\* loses only points that have reached maxAge
LaserGesture ==
    /\ im.currentTool = "laser" => \A point \in ViewPoints : LaserDown(World, point)
    /\ im.mode = "laser_active" => \A point \in ViewPoints : LaserUp(World, point)
    /\ \A After \in OtherCalls(World) : KeepsYoung(World, After)
    /\ \A tool \in Tools :
          setTool(World, tool).m.laserTrail =
             IF im.currentTool = "laser" /\ tool # "laser" THEN <<>> ELSE im.laserTrail

\* the gesture is over, its trail has a point that is still young, and the
\* pointer-up left it there
TrailOutlivesGesture ==
    /\ last.op = "handleMouseUp"
    /\ im.mode = "idle"
    /\ im.currentTool = "laser"
    /\ Len(im.laserTrail) >= 2
    /\ Young(im.laserTrail, now) # <<>>
    /\ Young(im.laserTrail, now) # im.laserTrail

(***************************************************************************)
(* Properties of the inputs that only change the view (SpecView).          *)
(***************************************************************************)
\* the same entities with the same positions and attributes, the same
\* selection set
SameScene(Before, After) ==
    /\ After.d = Before.d
    /\ After.h = Before.h

\* the pointer-ups of the Pan and Laser tools
ViewPointerUps(W) ==
    IF W.m.currentTool \in {"pan", "laser"}
    THEN {handleMouseUp(W, point) : point \in ViewPoints} ELSE {}

\* the other calls of the Pan and Laser tools, the wheel, the animation
\* frame and the pointer-moves of an arrow gesture
ViewCalls(W) ==
    (IF W.m.currentTool \in {"pan", "laser"}
     THEN {handleMouseDown(W, point, FALSE) : point \in ViewPoints}
            \cup {handleMouseMove(W, point) : point \in ViewPoints}
            \cup {handlePanningWithScreenCoords(W, screenPoint) :
                     screenPoint \in ScreenPoints}
     ELSE {})
      \cup (IF W.m.mode = "creating_arrow"
            THEN {handleMouseMove(W, point) : point \in ViewPoints} ELSE {})
      \cup {applyWheelPan(W, delta.x, delta.y) : delta \in WheelDeltas}
      \cup {Frame_cleanup(W)}

\* the state with the dragging flag of the entity recorded as dragged reset
Released(W) ==
    IF IsSome(W.m.draggedElementId)
    THEN SetDraggingFlags(W, W.m.draggedElementId[1], FALSE) ELSE W

CancelledEditNeverCommits ==
    (IsSome(exitEditingTimeout) /\ exitEditingTimeout[1].cancelled) =>
        LET After == exitEditing(World, exitEditingTimeout[1])
        IN /\ SameScene(World, After)
           /\ After.m = World.m

(***************************************************************************)
(* Properties of the pan offset (SpecView).                                *)
(***************************************************************************)
\* a wheel event contributes (-deltaX, -deltaY)
WheelAdds(W) ==
    \A delta \in WheelDeltas :
        applyWheelPan(W, delta.x, delta.y).m.panOffset
            = PointAdd(W.m.panOffset, Pt(-delta.x, -delta.y))

\* a drag that begins contributes nothing until its second tracked point,
\* and then the way from the first tracked point to the current one
DragAdds(W) ==
    \A point \in ViewPoints, first, current \in ScreenPoints :
        LET Down == handleMouseDown(W, point, FALSE)
            First == handlePanningWithScreenCoords(Down, first)
            Current == handlePanningWithScreenCoords(First, current)
        IN /\ Down.m.panOffset = W.m.panOffset
           /\ First.m.panOffset = W.m.panOffset
           /\ Current.m.panOffset
                 = PointAdd(W.m.panOffset, PointSubtract(current, first))

\* a wheel event between two moves of a drag adds its own contribution to
\* what the drag gives without it
WheelWithinDrag(W) ==
    \A before, after \in ScreenPoints, delta \in WheelDeltas :
        LET Moved == handlePanningWithScreenCoords(W, before)
            Wheeled == applyWheelPan(Moved, delta.x, delta.y)
        IN handlePanningWithScreenCoords(Wheeled, after).m.panOffset
              = PointAdd(handlePanningWithScreenCoords(Moved, after).m.panOffset,
                         Pt(-delta.x, -delta.y))

\* C39: the pan offset is the initial offset plus the sum of the pan
\* inputs: every applyWheelPan(dx, dy) adds (-dx, -dy), a drag with the Pan
\* tool adds the current screen point minus its first tracked screen point,
\* also when wheel events come between the moves of the drag and when a
\* drag follows another
PanAccounting ==
    /\ WheelAdds(World)
    /\ im.currentTool = "pan" => DragAdds(World)
    /\ (im.mode = "panning" /\ IsSome(im.panStartScreenPoint)) => WheelWithinDrag(World)

(***************************************************************************)
(* Properties of the trail (SpecTrail).                                    *)
(***************************************************************************)
\* the time of a call and the times one, two and three clock steps later
Later == {now + k * ClockStep : k \in 0..3}

\* the points are in the order they were added in, none missing between
\* two of them, and while there are points the one added last is among them
NewestInOrder(trail) ==
    /\ \A i \in 1..(Len(trail) - 1) :
          /\ trail[i + 1].point = PointerAt(trail[i].point.x + 1)
          /\ trail[i].timestamp <= trail[i + 1].timestamp
    /\ trail # <<>> => trail[Len(trail)].point = PointerAt(calls - 1)

\* cleanup() at the time t leaves the points younger than maxAge, which
\* are the last ones of the trail, and no other
CleanedAt(trail, t) ==
    LET kept == LaserTrail_cleanup(trail, t)
        gone == Len(trail) - Len(kept)
    IN /\ \A i \in 1..Len(kept) : t - kept[i].timestamp < LaserMaxAge
       /\ kept = SubSeq(trail, gone + 1, Len(trail))
       /\ \A i \in 1..gone : t - trail[i].timestamp >= LaserMaxAge

\* getTrailPoints() at the time t: a point of age 0 has the opacity 1, one
\* of maxAge or more 0, and between them the opacity falls by 1 / maxAge with
\* every millisecond
ShownAt(trail, t) ==
    LET shown == LaserTrail_getTrailPoints(trail, t)
    IN /\ Len(shown) = Len(trail)
       /\ \A i \in 1..Len(trail) :
             LET age == t - trail[i].timestamp
             IN /\ shown[i].point = trail[i].point
                /\ shown[i].opacity.over = LaserMaxAge
                /\ age < LaserMaxAge => shown[i].opacity.parts + age = LaserMaxAge
                /\ age >= LaserMaxAge => shown[i].opacity.parts = 0

\* the trail after the run's last cleanup() holds no point of maxAge
AfterCleanup ==
    (last.op = "cleanup" /\ im.laserTrail # <<>>) =>
        im.laserTrail[1].timestamp + LaserMaxAge > im.laserTrail[Len(im.laserTrail)].timestamp

====
